---------------------------- MODULE Spec2Model ----------------------------
(***************************************************************************)
(* A model of haero's chemistry driver (src/chem_driver/chem_driver.cpp:   *)
(* ChemSolver and SolverParams), of the aerosol Model (src/haero/          *)
(* model.cpp: mode/species association, process tables, run_process,       *)
(* update_state, create_diagnostics), of the process selector (src/haero/  *)
(* selected_processes.cpp) and of Atmosphere::quantities_nonnegative       *)
(* (src/haero/atmosphere.hpp).                                             *)
(*                                                                         *)
(* Specifications: Spec (the driver's runs), SpecLoad (its constructor on  *)
(* any document), SpecModel (the association, any lists and table),        *)
(* SpecProc (process selection and dispatch, any selections, in builds     *)
(* with and without HAERO_FORTRAN), SpecAtm (the non-negativity            *)
(* reduction), SpecCtor (the Atmosphere constructor's assertions, with and *)
(* without NDEBUG), SpecPool (the ColumnPool of src/haero/testing.cpp),    *)
(* SpecSel (the selector on pairs of selection records), SpecWalk          *)
(* (ParameterWalk::gather_inputs of src/sw/skywalker.cpp), SpecSw (the     *)
(* skywalker Fortran bridge: loads, output stores, frees, exit handlers).  *)
(*                                                                         *)
(* The process classes, the Diagnostics class and the two selectors        *)
(* Model::Model calls are declared in headers this source tree does not    *)
(* hold.  A process is a record of its class, the type tag it reports and  *)
(* the number of init calls it received; what run, update and prepare do   *)
(* to the caller's objects follows the process interface contract.         *)
(*                                                                         *)
(* Numbers.  Real values are integers in a fixed unit: times and step      *)
(* sizes in units of 1e-8, tolerances in units of 1e-12.  The factor       *)
(* 0.9999 of the loop test is kept exact by cross-multiplying with 10000.  *)
(*                                                                         *)
(* The batched kernel TChem::AtmosphericChemistry::runDeviceBatch is a     *)
(* third-party routine.  It is modelled by a response table kmcd_ that the *)
(* constructor draws: the kernel is a fixed function of the element's own  *)
(* state row and time-advance descriptor, unknown to the driver.           *)
(*                                                                         *)
(* Views and sequences are indexed from 1 here and from 0 in the source;   *)
(* stored species indices keep the source's zero base.  The screen         *)
(* summary printed under print_qoi_ goes to stdout and touches no member   *)
(* and no line of the output sink; it is left out.                         *)
(***************************************************************************)
EXTENDS Integers, Sequences, FiniteSets, TLC

VARIABLES
  input_file,      \* the YAML document given to the constructor
  pc,              \* "start", "failed", "ready", "loop", "kernel_done", "written"
  error,           \* the message of the YamlException thrown, as text segments
  nbatch_, verbose_, team_size_, vector_size_, print_qoi_,
  assigned,        \* history: the members parse_tchem_inputs_ assigned
  solver_params_,  \* SolverParams
  kmcd_,           \* kinetic model data: decides what the kernel returns
  state_,          \* device state matrix, one row (abstracted to a value) per element
  state_host_,     \* its host mirror
  fout_,           \* the output sink: the sequence of lines written so far
  t, dt,           \* device views of time_integrate
  t_host, dt_host, \* their host mirrors
  tadv,            \* device view of time-advance descriptors
  iter,            \* loop counter of time_integrate
  tsum,            \* the tsum declared before the loop
  tsum_inner,      \* the tsum declared inside the loop body (times nbatch_)
  entry,           \* which entry point is running / ran last
  arg,             \* <<tbeg, tend>> of the explicit entry point
  ncalls,          \* history: number of time_integrate calls begun
  launched,        \* history: batched kernel launches in the current call
  mark,            \* history: Len(fout_) when the current call began
  modes_, aero_species_, mode_species, species_for_mode_,
  mpc,             \* Model: "start", "built"
  heap_corrupt,    \* Model: an out-of-bounds write happened in the constructor
  query,           \* Model: last aerosol_species_for_mode call, [index, result]
  HAERO_FORTRAN,   \* build option: Fortran-backed processes are compiled in
  parameterizations_, \* Model: the selections the processes are resolved from
  prog_processes_, \* Model: process type -> prognostic process
  diag_processes_, \* Model: process type -> diagnostic process
  prognostics,     \* the caller's Prognostics (abstracted to a value)
  diagnostics,     \* the caller's Diagnostics, None before create_diagnostics
  tendencies,      \* the caller's Tendencies (abstracted to a value)
  last,            \* history: the last call on the Model or the selector
  atmosphere,      \* Atmosphere: the column, one record of quantities per level
  team,            \* the thread team given to quantities_nonnegative
  examined,        \* the levels whose lambda has run
  violation,       \* each team thread's local reduction value
  nonnegative,     \* what quantities_nonnegative returned, None before
  NDEBUG,          \* build option: EKAT_ASSERT is compiled out
  views,           \* Atmosphere::Atmosphere: the extent of each view argument
  pblh,            \* Atmosphere::Atmosphere: the pblh argument
  constructed,     \* the Atmosphere constructed or the assertion that failed,
                   \* None before
  pools_,          \* testing.cpp: level count -> ColumnPool
  heap,            \* device memory: heap[a] is the number of Reals of the
                   \* allocation at address a
  handed,          \* history: the ColumnViews create_column_view returned
  selections_pair, \* two selection records given to the selector
  requested,       \* the process type requested with each of them
  answers,         \* what the selector answered for each, None before
  ensemble,        \* ParameterWalk: parameter name -> list of values
  ref_input,       \* ParameterWalk: the reference InputData
  excluded_params, \* the argument of gather_inputs
  gathered,        \* what gather_inputs did, None before
  fortran_aero_configs_, \* skywalker bridge: the cached aerosol configs
  fortran_ensembles_,    \* skywalker bridge: the live ensembles
  atexit_,         \* the exit handlers registered, in order of registration
  phase,           \* "running", "exiting" (handlers pending), "exited"
  sw_objects,      \* history: every EnsembleData allocated, with its address
                   \* and the number of times it was deleted
  sw_last          \* history: the last call of the bridge

chemVars == <<input_file, pc, error, nbatch_, verbose_, team_size_, vector_size_,
              print_qoi_, assigned, solver_params_, kmcd_, state_, state_host_,
              fout_, t, dt, t_host, dt_host, tadv, iter, tsum, tsum_inner, entry, arg,
              ncalls, launched, mark>>
assocVars == <<modes_, aero_species_, mode_species, species_for_mode_, mpc,
               heap_corrupt, query>>
procVars == <<HAERO_FORTRAN, parameterizations_, prog_processes_,
              diag_processes_, prognostics, diagnostics, tendencies, last>>
atmVars == <<atmosphere, team, examined, violation, nonnegative>>
ctorVars == <<NDEBUG, views, pblh, constructed>>
poolVars == <<pools_, heap, handed>>
selVars == <<selections_pair, requested, answers>>
walkVars == <<ensemble, ref_input, excluded_params, gathered>>
swVars == <<fortran_aero_configs_, fortran_ensembles_, atexit_, phase,
           sw_objects, sw_last>>
toolVars == <<ctorVars, poolVars, selVars, walkVars, swVars>>
besideCtor == <<poolVars, selVars, walkVars, swVars>>
besidePool == <<ctorVars, selVars, walkVars, swVars>>
besideSel == <<ctorVars, poolVars, walkVars, swVars>>
besideWalk == <<ctorVars, poolVars, selVars, swVars>>
besideSw == <<ctorVars, poolVars, selVars, walkVars>>
modelVars == <<assocVars, procVars, atmVars, toolVars>>
vars == <<chemVars, modelVars>>

----------------------------------------------------------------------------
(* Bounds of the model *)

MaxBatch == 2
MaxIter == 2
MaxCalls == 2
MaxMissing == 1
MaxLevels == 2
MaxTeam == 2

----------------------------------------------------------------------------
(* namespace defaults, chem_driver.cpp lines 6-27 *)

defaults_tbeg == 0
defaults_tend == 100000000
defaults_dt == 1
defaults_dtmin == 1
defaults_dtmax == 10000000
defaults_max_num_newton_iterations == 100
defaults_num_time_iterations_per_interval == 10
defaults_jacobian_interval == 1
defaults_max_time_iterations == 1000
defaults_atol_newton == 100
defaults_rtol_newton == 1000000
defaults_atol_time == 1
defaults_tol_time == 100000000
defaults_nbatch == 1
defaults_verbose == FALSE
defaults_team_size == -1
defaults_vector_size == -1
defaults_outputfile == "chem.dat"

\* The value of a member before the constructor runs.
Indeterminate == "indeterminate"

----------------------------------------------------------------------------
(* The input document *)

\* Keys in the order parse_tchem_inputs_ tests them.
TchemKeys == <<"nbatch", "verbose", "team_size", "vector_size", "print_qoi">>

\* required_nodes of SolverParams::set_params, in order.
required_nodes ==
  <<"dtmin", "dtmax", "tbeg", "tend", "num_time_iterations_per_interval",
    "max_time_iterations", "max_newton_iterations", "atol_newton",
    "rtol_newton", "atol_time", "tol_time", "jacobian_interval", "outputfile">>

Range(s) == {s[i] : i \in 1..Len(s)}

SmallSubsets(S) == {m \in SUBSET S : Cardinality(m) <= MaxMissing}

\* Values a complete section carries that no property depends on; each
\* differs from the default of its parameter.
Cfg ==
  [verbose |-> TRUE, team_size |-> 4, vector_size |-> 2,
   max_newton_iterations |-> 20, num_time_iterations_per_interval |-> 5,
   jacobian_interval |-> 3, atol_newton |-> 7, rtol_newton |-> 8,
   atol_time |-> 9, tol_time |-> 11, outputfile |-> "run.dat",
   tbeg |-> 0, tend |-> 10000]

\* Step bounds a document may carry: a proper interval and an empty one.
CfgStepBounds == {<<1, 3>>, <<3, 1>>}

SectionKinds == {"absent", "scalar", "map"}

TchemSections ==
       {[kind |-> k, keys |-> {}, nbatch |-> 1, print_qoi |-> FALSE] :
            k \in {"absent", "scalar"}}
  \cup {[kind |-> "map", keys |-> Range(TchemKeys) \ m, nbatch |-> 1,
         print_qoi |-> FALSE] :
            m \in SmallSubsets(Range(TchemKeys)) \ {{}}}
  \cup {[kind |-> "map", keys |-> Range(TchemKeys), nbatch |-> n,
         print_qoi |-> q] : n \in 1..MaxBatch, q \in BOOLEAN}

SolverValues(sb, mx) ==
  [tbeg |-> Cfg.tbeg, tend |-> Cfg.tend, dtmin |-> sb[1], dtmax |-> sb[2],
   max_time_iterations |-> mx]

SolverSections ==
       {[kind |-> k, keys |-> {}, val |-> SolverValues(<<1, 3>>, 0)] :
            k \in {"absent", "scalar"}}
  \cup {[kind |-> "map", keys |-> Range(required_nodes) \ m,
         val |-> SolverValues(<<1, 3>>, 0)] :
            m \in SmallSubsets(Range(required_nodes)) \ {{}}}
  \cup {[kind |-> "map", keys |-> Range(required_nodes),
         val |-> SolverValues(sb, mx)] :
            sb \in CfgStepBounds, mx \in 0..MaxIter}

InputFiles == [tchem : TchemSections, solver_parameters : SolverSections]

\* root["x"] and root["x"].IsMap()
IsMapSection(sec) == sec.kind = "map"

\* FirstMissing with a loop that stops one key early.
RECURSIVE FirstMissing_SkipsLast(_, _)
FirstMissing_SkipsLast(order, keys) ==
  IF Len(order) <= 1 THEN ""
  ELSE IF Head(order) \notin keys THEN Head(order)
  ELSE FirstMissing_SkipsLast(Tail(order), keys)

\* The first key of `order` the section lacks, or "" when it has them all.
RECURSIVE FirstMissing(_, _)
FirstMissing(order, keys) ==
  IF order = <<>> THEN ""
  ELSE IF Head(order) \notin keys THEN Head(order)
  ELSE FirstMissing(Tail(order), keys)

----------------------------------------------------------------------------
(* ChemSolver::parse_tchem_inputs_ *)

\* The message of the exception thrown for a missing tchem key, as the
\* segments of its text.
TchemMessage(key) ==
  CASE key = "nbatch" ->
         <<"problem specific entry does not specify number of batches (",
           "nbatch", ").">>
    [] key = "verbose" ->
         <<"problem specific entry has no ", "verbose", " boolean (",
           "verbose", ").">>
    [] key = "team_size" ->
         <<"problem specific entry has no ", "team_size", " entry (",
           "team_size", ").">>
    [] key = "vector_size" ->
         <<"problem specific entry has no ", "vector_size", " entry (",
           "vector_size", ").">>
    [] key = "print_qoi" ->
         <<"problem specific entry has no ", "print_qoi", " boolean (",
           "verbose", ").">>

\* The result of parse_tchem_inputs_: either a thrown message or the five
\* members as the function leaves them (for print_qoi_, the set of values it
\* may hold) and the members it assigned.
parse_tchem_inputs_(doc) ==
  LET sec == doc.tchem
      miss == FirstMissing(TchemKeys, sec.keys) IN
  IF IsMapSection(sec)
  THEN IF miss # ""
       THEN [thrown |-> TRUE, what |-> TchemMessage(miss)]
       ELSE [thrown |-> FALSE, nbatch |-> sec.nbatch, verbose |-> Cfg.verbose,
             team_size |-> Cfg.team_size, vector_size |-> Cfg.vector_size,
             print_qoi |-> {sec.print_qoi},
             assigns |-> {"nbatch_", "verbose_", "team_size_", "vector_size_",
                          "print_qoi_"}]
  ELSE [thrown |-> FALSE, nbatch |-> defaults_nbatch,
        verbose |-> defaults_verbose, team_size |-> defaults_team_size,
        vector_size |-> defaults_vector_size,
        \* the else branch assigns four members; print_qoi_ is not among
        \* them and keeps whatever value its storage held
        print_qoi |-> BOOLEAN,
        assigns |-> {"nbatch_", "verbose_", "team_size_", "vector_size_"}]

----------------------------------------------------------------------------
(* SolverParams::set_params *)

SolverMessage(req_node) ==
  <<"solver_parameters contains no ", req_node, " entry.">>

set_params(doc) ==
  LET sec == doc.solver_parameters
      miss == FirstMissing(required_nodes, sec.keys)
      node == sec.val IN
  IF IsMapSection(sec)
  THEN IF miss # ""
       THEN [thrown |-> TRUE, what |-> SolverMessage(miss)]
       ELSE [thrown |-> FALSE,
             params |->
               [tadv_default |->
                  [_tbeg |-> node.tbeg, _tend |-> node.tend,
                   _dt |-> node.dtmin, _dtmin |-> node.dtmin,
                   _dtmax |-> node.dtmax,
                   _max_num_newton_iterations |-> Cfg.max_newton_iterations,
                   _num_time_iterations_per_interval |->
                       Cfg.num_time_iterations_per_interval,
                   _jacobian_interval |-> Cfg.jacobian_interval],
                max_time_iterations |-> node.max_time_iterations,
                atol_newton |-> Cfg.atol_newton, rtol_newton |-> Cfg.rtol_newton,
                atol_time |-> Cfg.atol_time, tol_time |-> Cfg.tol_time,
                outputfile |-> Cfg.outputfile]]
  ELSE [thrown |-> FALSE,
        params |->
          [tadv_default |->
             [_tbeg |-> defaults_tbeg, _tend |-> defaults_tend,
              _dt |-> defaults_dt, _dtmin |-> defaults_dtmin,
              _dtmax |-> defaults_dtmax,
              _max_num_newton_iterations |->
                  defaults_max_num_newton_iterations,
              _num_time_iterations_per_interval |->
                  defaults_num_time_iterations_per_interval,
              _jacobian_interval |-> defaults_jacobian_interval],
           max_time_iterations |-> defaults_max_time_iterations,
           atol_newton |-> defaults_atol_newton,
           rtol_newton |-> defaults_rtol_newton,
           atol_time |-> defaults_atol_time, tol_time |-> defaults_tol_time,
           outputfile |-> defaults_outputfile]]

----------------------------------------------------------------------------
(* The batched kernel, TChem::AtmosphericChemistry::runDeviceBatch *)

\* The abstract values of one state row (density, pressure, temperature and
\* the species concentrations of one batch element).
StateRows == {0, 1}

\* What the kernel can answer for one element: the time it advances by and
\* the step size its error control proposes before the clamp.
Responses ==
  {[adv |-> 0, dtc |-> 0], [adv |-> 9999, dtc |-> 2], [adv |-> 10000, dtc |-> 5]}

\* The kinetic models the constructor may load.
KineticModels == [StateRows -> Responses]

NextRow(y) == (y + 1) % Cardinality(StateRows)

\* The step size is clamped to [dtmin, dtmax].
ClampStep(x, lo, hi) == IF x < lo THEN lo ELSE IF x > hi THEN hi ELSE x

\* The kernel advances from the descriptor's begin time, not beyond its end
\* time.
AdvanceTime(tbeg, tend, adv) ==
  IF tbeg + adv > tend THEN (IF tbeg > tend THEN tbeg ELSE tend)
  ELSE tbeg + adv

\* One element of runDeviceBatch: from the element's descriptor and state
\* row to its time, step size and state row.
KernelElement(kmcd, tadv_i, row) ==
  LET r == kmcd[row] IN
  [t |-> AdvanceTime(tadv_i._tbeg, tadv_i._tend, r.adv),
   dt |-> ClampStep(r.dtc, tadv_i._dtmin, tadv_i._dtmax),
   state |-> NextRow(row)]

runDeviceBatch(kmcd, tadvs, rows) ==
  [i \in DOMAIN tadvs |-> KernelElement(kmcd, tadvs[i], rows[i])]

----------------------------------------------------------------------------
(* write_state and the integer conversions of its first argument *)

\* std::size_t as four 16-bit limbs, least significant first.
SizeT(n) ==
  IF n >= 0 THEN <<n, 0, 0, 0>> ELSE <<65536 + n, 65535, 65535, 65535>>

\* Conversion of a std::size_t to ordinal_type (a 32-bit int): the low 32
\* bits, read as two's complement.
OrdinalOfSizeT(z) ==
  (IF z[2] >= 32768 THEN z[2] - 65536 ELSE z[2]) * 65536 + z[1]

HeaderLine == [kind |-> "header", iter |-> 0, t |-> 0, dt |-> 0, state |-> 0]

\* write_state printing a one-based iteration index.
write_state_OneBased(it, th, dth, sh) ==
  [sp \in 1..Len(sh) |->
     [kind |-> "record", iter |-> it + 1, t |-> th[sp], dt |-> dth[sp],
      state |-> sh[sp]]]

\* One line per row of the host state matrix.
write_state(it, th, dth, sh) ==
  [sp \in 1..Len(sh) |->
     [kind |-> "record", iter |-> it, t |-> th[sp], dt |-> dth[sp],
      state |-> sh[sp]]]

----------------------------------------------------------------------------
(* ChemSolver::ChemSolver *)

None == <<>>

ConstructorThrows ==
  /\ pc = "start"
  /\ LET pt == parse_tchem_inputs_(input_file) IN
       IF pt.thrown
       THEN error' = pt.what
       ELSE LET sp == set_params(input_file) IN
              /\ sp.thrown
              /\ error' = sp.what
  /\ pc' = "failed"
  /\ UNCHANGED <<input_file, nbatch_, verbose_, team_size_, vector_size_,
                 print_qoi_, assigned, solver_params_, kmcd_, state_, state_host_,
                 fout_, t, dt, t_host, dt_host, tadv, iter, tsum, tsum_inner,
                 entry, arg, ncalls, launched, mark>>
  /\ UNCHANGED modelVars

Constructor ==
  /\ pc = "start"
  /\ LET pt == parse_tchem_inputs_(input_file) IN
       /\ ~pt.thrown
       /\ LET sp == set_params(input_file) IN
            /\ ~sp.thrown
            /\ nbatch_' = pt.nbatch
            /\ verbose_' = pt.verbose
            /\ team_size_' = pt.team_size
            /\ vector_size_' = pt.vector_size
            /\ print_qoi_' \in pt.print_qoi
            /\ assigned' = pt.assigns
            /\ solver_params_' = sp.params
            /\ \E k \in KineticModels : kmcd_' = k
            \* fopen(outputfile, "w")
            /\ fout_' = <<>>
            \* setScenarioConditions, then deep_copy(state_, state_host_)
            /\ \E rows \in [1..pt.nbatch -> StateRows] :
                 /\ state_host_' = rows
                 /\ state_' = rows
  /\ pc' = "ready"
  /\ UNCHANGED <<input_file, error, t, dt, t_host, dt_host, tadv, iter, tsum,
                 tsum_inner, entry, arg, ncalls, launched, mark>>
  /\ UNCHANGED modelVars

----------------------------------------------------------------------------
(* ChemSolver::time_integrate, both entry points *)

\* The pairs the explicit entry point is called with.
ArgPairs == {<<0, 10000>>, <<10000, 20000>>}

\* Kokkos::deep_copy of a scalar into every element of a view, the scalar
\* taken to be zero.
deep_copy_value_Zero(elements, value) == [i \in elements |-> 0]

\* Kokkos::deep_copy(view, value): every element of the view gets the value.
deep_copy_value(elements, value) == [i \in elements |-> value]

\* Kokkos::deep_copy between views, leaving the destination as it was.
deep_copy_Skipped(dst, src) == dst

\* Kokkos::deep_copy(dst, src): returns when the kernels writing src are
\* complete and dst holds the contents of src.
deep_copy(dst, src) == src

Batch == 1..nbatch_

\* The end time the loop test reads.
LoopTend ==
  IF entry = "args" THEN arg[2] ELSE solver_params_.tadv_default._tend

\* The loop test without its iteration cap.
LoopTest_NoCap == tsum * 10000 <= LoopTend * 9999

\* The test of the for loop: iter < max_time_iterations && tsum <= tend * 0.9999
LoopTest ==
  /\ iter < solver_params_.max_time_iterations
  /\ tsum * 10000 <= LoopTend * 9999

\* Lines 150-231: everything before the loop of time_integrate(tbeg, tend).
TimeIntegrateArgs ==
  /\ pc = "ready"
  /\ ncalls < MaxCalls
  /\ \E a \in ArgPairs :
       LET sp == [solver_params_ EXCEPT !.tadv_default._tbeg = a[1],
                                        !.tadv_default._tend = a[2]]
           t0 == deep_copy_value(Batch, a[1])
           dt0 == deep_copy_value(Batch, solver_params_.tadv_default._dtmin) IN
       /\ arg' = a
       /\ t' = t0
       /\ dt' = dt0
       /\ solver_params_' = sp
       /\ tadv' = [i \in Batch |-> sp.tadv_default]
       /\ dt_host' = dt0
       /\ t_host' = t0
       /\ fout_' = fout_ \o <<HeaderLine>>
                         \o write_state(-1, t0, dt0, state_host_)
  /\ entry' = "args"
  /\ tsum' = 0
  /\ tsum_inner' = 0
  /\ iter' = 0
  /\ pc' = "loop"
  /\ ncalls' = ncalls + 1
  /\ launched' = 0
  /\ mark' = Len(fout_)
  /\ UNCHANGED <<input_file, error, nbatch_, verbose_, team_size_,
                 vector_size_, print_qoi_, assigned, kmcd_, state_, state_host_>>
  /\ UNCHANGED modelVars

\* Lines 285-360: everything before the loop of time_integrate().
TimeIntegrate ==
  /\ pc = "ready"
  /\ ncalls < MaxCalls
  /\ LET t0 == [i \in Batch |-> solver_params_.tadv_default._tbeg]
         dt0 == [i \in Batch |-> solver_params_.tadv_default._dtmin] IN
       /\ t' = t0
       /\ dt' = dt0
       /\ tadv' = [i \in Batch |-> solver_params_.tadv_default]
       /\ dt_host' = dt0
       /\ t_host' = t0
       /\ fout_' = fout_ \o <<HeaderLine>>
                         \o write_state(OrdinalOfSizeT(SizeT(-1)), t0, dt0,
                                        state_host_)
  /\ entry' = "noargs"
  /\ tsum' = 0
  /\ tsum_inner' = 0
  /\ iter' = 0
  /\ pc' = "loop"
  /\ ncalls' = ncalls + 1
  /\ launched' = 0
  /\ mark' = Len(fout_)
  /\ UNCHANGED <<input_file, error, nbatch_, verbose_, team_size_,
                 vector_size_, print_qoi_, assigned, solver_params_, kmcd_, state_,
                 state_host_, arg>>
  /\ UNCHANGED modelVars

\* Lines 237-238 / 364-365: the loop test passed, the kernel runs.
RunDeviceBatch ==
  /\ pc = "loop"
  /\ LoopTest
  /\ LET out == runDeviceBatch(kmcd_, tadv, state_) IN
       /\ t' = [i \in Batch |-> out[i].t]
       /\ dt' = [i \in Batch |-> out[i].dt]
       /\ state_' = [i \in Batch |-> out[i].state]
  /\ launched' = launched + 1
  /\ pc' = "kernel_done"
  /\ UNCHANGED <<input_file, error, nbatch_, verbose_, team_size_,
                 vector_size_, print_qoi_, assigned, solver_params_, kmcd_, state_host_,
                 fout_, t_host, dt_host, tadv, iter, tsum, tsum_inner, entry,
                 arg, ncalls, mark>>
  /\ UNCHANGED modelVars

\* Lines 248-253 / 374-378: mirror to host and write the record.
Snapshot ==
  /\ pc = "kernel_done"
  /\ dt_host' = deep_copy(dt_host, dt)
  /\ t_host' = deep_copy(t_host, t)
  /\ state_host_' = deep_copy(state_host_, state_)
  /\ fout_' = fout_ \o write_state(iter, t_host', dt_host', state_host_')
  /\ pc' = "written"
  /\ UNCHANGED <<input_file, error, nbatch_, verbose_, team_size_,
                 vector_size_, print_qoi_, assigned, solver_params_, kmcd_, state_, t,
                 dt, tadv, iter, tsum, tsum_inner, entry, arg, ncalls,
                 launched, mark>>
  /\ UNCHANGED modelVars

RECURSIVE SumSeq(_)
SumSeq(s) == IF s = <<>> THEN 0 ELSE Head(s) + SumSeq(Tail(s))

\* The carry-over of the time only.
CarryOverBatch_TimeOnly(tadvs, ts, dts) ==
  [i \in DOMAIN tadvs |-> [tadvs[i] EXCEPT !._tbeg = ts[i]]]

\* The carry-over with its two assignments crossed.
CarryOverBatch_Crossed(tadvs, ts, dts) ==
  [i \in DOMAIN tadvs |-> [tadvs[i] EXCEPT !._tbeg = dts[i], !._dt = ts[i]]]

\* The carry-over reading element 0 for every element.
CarryOverBatch_FirstElement(tadvs, ts, dts) ==
  [i \in DOMAIN tadvs |-> [tadvs[i] EXCEPT !._tbeg = ts[1], !._dt = dts[1]]]

\* The body of the parallel_reduce, for all elements.
CarryOverBatch(tadvs, ts, dts) ==
  [i \in DOMAIN tadvs |-> [tadvs[i] EXCEPT !._tbeg = ts[i], !._dt = dts[i]]]

\* Lines 255-267 / 380-391: the reduction into the tsum declared in the loop
\* body, the fence, and ++iter.  The tsum of the loop test is another
\* variable and is not assigned.
CarryOver ==
  /\ pc = "written"
  /\ tadv' = CarryOverBatch(tadv, t, dt)
  /\ tsum_inner' = SumSeq(t)
  /\ iter' = iter + 1
  /\ pc' = "loop"
  /\ UNCHANGED <<input_file, error, nbatch_, verbose_, team_size_,
                 vector_size_, print_qoi_, assigned, solver_params_, kmcd_, state_,
                 state_host_, fout_, t, dt, t_host, dt_host, tsum, entry, arg,
                 ncalls, launched, mark>>
  /\ UNCHANGED modelVars

\* The loop test failed: the call returns.
Return ==
  /\ pc = "loop"
  /\ ~LoopTest
  /\ pc' = "ready"
  /\ UNCHANGED <<input_file, error, nbatch_, verbose_, team_size_,
                 vector_size_, print_qoi_, assigned, solver_params_, kmcd_, state_,
                 state_host_, fout_, t, dt, t_host, dt_host, tadv, iter, tsum,
                 tsum_inner, entry, arg, ncalls, launched, mark>>
  /\ UNCHANGED modelVars

----------------------------------------------------------------------------
(* Specifications of the driver *)

ProcBlank ==
  /\ prog_processes_ = <<>>
  /\ diag_processes_ = <<>>
  /\ diagnostics = <<>>
  /\ last = <<>>

ProcIdle ==
  /\ HAERO_FORTRAN = FALSE
  /\ parameterizations_ = <<>>
  /\ prognostics = 0
  /\ tendencies = 0
  /\ ProcBlank

AtmBlank ==
  /\ examined = {}
  /\ violation = <<>>
  /\ nonnegative = <<>>

AtmIdle ==
  /\ atmosphere = <<>>
  /\ team = 0
  /\ AtmBlank

AssocIdle ==
  /\ modes_ = <<>>
  /\ aero_species_ = <<>>
  /\ mode_species = <<>>
  /\ species_for_mode_ = <<>>
  /\ mpc = "idle"
  /\ heap_corrupt = FALSE
  /\ query = <<>>

CtorIdle ==
  /\ NDEBUG = FALSE
  /\ views = <<>>
  /\ pblh = 0
  /\ constructed = <<>>

PoolIdle ==
  /\ pools_ = <<>>
  /\ heap = <<>>
  /\ handed = <<>>

SelIdle ==
  /\ selections_pair = <<>>
  /\ requested = ""
  /\ answers = <<>>

WalkIdle ==
  /\ ensemble = <<>>
  /\ ref_input = <<>>
  /\ excluded_params = {}
  /\ gathered = <<>>

\* The static pointers of the bridge are null, nothing is registered.
SwBlank ==
  /\ fortran_aero_configs_ = [null |-> TRUE, keys |-> {}]
  /\ fortran_ensembles_ = [null |-> TRUE, set |-> {}]
  /\ atexit_ = <<>>
  /\ sw_objects = <<>>
  /\ sw_last = <<>>

SwIdle == phase = "idle" /\ SwBlank

ToolIdle ==
  /\ CtorIdle
  /\ PoolIdle
  /\ SelIdle
  /\ WalkIdle
  /\ SwIdle

BesideCtorIdle == PoolIdle /\ SelIdle /\ WalkIdle /\ SwIdle
BesidePoolIdle == CtorIdle /\ SelIdle /\ WalkIdle /\ SwIdle
BesideSelIdle == CtorIdle /\ PoolIdle /\ WalkIdle /\ SwIdle
BesideWalkIdle == CtorIdle /\ PoolIdle /\ SelIdle /\ SwIdle
BesideSwIdle == CtorIdle /\ PoolIdle /\ SelIdle /\ WalkIdle

ModelIdle ==
  /\ modes_ = <<>>
  /\ aero_species_ = <<>>
  /\ mode_species = <<>>
  /\ species_for_mode_ = <<>>
  /\ mpc = "idle"
  /\ heap_corrupt = FALSE
  /\ query = <<>>
  /\ ProcIdle
  /\ AtmIdle
  /\ ToolIdle

ChemBlank ==
  /\ error = None
  /\ nbatch_ = Indeterminate
  /\ verbose_ = Indeterminate
  /\ team_size_ = Indeterminate
  /\ vector_size_ = Indeterminate
  /\ print_qoi_ = Indeterminate
  /\ assigned = {}
  /\ solver_params_ = None
  /\ kmcd_ = None
  /\ state_ = None
  /\ state_host_ = None
  /\ fout_ = None
  /\ t = None /\ dt = None /\ t_host = None /\ dt_host = None /\ tadv = None
  /\ iter = 0 /\ tsum = 0 /\ tsum_inner = 0
  /\ entry = "none" /\ arg = None
  /\ ncalls = 0 /\ launched = 0 /\ mark = 0

ChemStart == pc = "start" /\ ChemBlank
ChemIdle == pc = "idle" /\ input_file = None /\ ChemBlank

\* Loading: any document, the constructor only.
InitLoad == input_file \in InputFiles /\ ChemStart /\ ModelIdle
NextLoad == ConstructorThrows \/ Constructor
SpecLoad == InitLoad /\ [][NextLoad]_vars

\* Running: documents that carry a solver_parameters section.
Init ==
  /\ input_file \in InputFiles
  /\ input_file.solver_parameters.kind = "map"
  /\ ChemStart
  /\ ModelIdle
Next ==
  \/ ConstructorThrows
  \/ Constructor
  \/ TimeIntegrateArgs
  \/ TimeIntegrate
  \/ RunDeviceBatch
  \/ Snapshot
  \/ CarryOver
  \/ Return
Spec == Init /\ [][Next]_vars

----------------------------------------------------------------------------
(* haero::Model: the mode/species association, model.cpp *)

ModeNames == {"aitken", "accum"}
\* The keys an association table may use: the mode names and a name that is
\* no mode's.
TableKeys == ModeNames \cup {"coarse"}
\* The names the table gives to species.
TableSpecies == {"SO4", "POM"}
\* The names aerosol species may carry; one is also the name of a mode.
SpeciesNames == TableSpecies \cup {"aitken"}

\* The sequences over S without repetition.
Arrangements(S) ==
  UNION {{q \in [1..n -> S] : \A a, b \in 1..n : q[a] = q[b] => a = b} :
           n \in 0..Cardinality(S)}

\* std::find_if(v.begin(), v.end(), name matches) - v.begin(): the zero-based
\* index of the first match, v.size() when there is none.
FindIndex(v, name) ==
  IF \E i \in 1..Len(v) : v[i] = name
  THEN (CHOOSE i \in 1..Len(v) :
          v[i] = name /\ \A j \in 1..(i - 1) : v[j] # name) - 1
  ELSE Len(v)

\* The index pushed for entry s of a mode's species list.  The predicate of
\* the inner find_if compares the species name with mode_name.
SpeciesIndex(aerosol_species, mode_name, species_name) ==
  FindIndex(aerosol_species, mode_name)

\* The list the constructor's loops build for the mode at zero-based index m:
\* one push per species named under each key that resolves to m.
AssociationFor(aerosol_modes, aerosol_species, table, m) ==
  LET name == aerosol_modes[m + 1] IN
  IF name \in DOMAIN table /\ FindIndex(aerosol_modes, name) = m
  THEN [s \in 1..Len(table[name]) |->
          SpeciesIndex(aerosol_species, name, table[name][s])]
  ELSE <<>>

\* The keys of the table that resolve to no mode: for them mode_index is
\* aerosol_modes.size() and the push_back writes past the end of
\* species_for_mode_.
UnresolvedKeys(aerosol_modes, table) ==
  {k \in DOMAIN table : FindIndex(aerosol_modes, k) = Len(aerosol_modes)}

----------------------------------------------------------------------------
(* Process selection, selected_processes.cpp *)

\* The process types select_aerosol_process has a branch for.
AerosolProcessTypes ==
  {"ActivationProcess", "CloudBorneWetRemovalProcess", "CoagulationProcess",
   "CondensationProcess", "DryDepositionProcess", "EmissionsProcess",
   "InterstitialWetRemovalProcess", "NucleationProcess", "CalcsizeProcess",
   "RenameSubareaProcess", "ResuspensionProcess"}

\* The arrays of Model::Model, in order.
progProcessTypes ==
  <<"ActivationProcess", "CloudBorneWetRemovalProcess", "CoagulationProcess",
    "CondensationProcess", "DryDepositionProcess", "EmissionsProcess",
    "NucleationProcess", "ResuspensionProcess">>
diagProcessTypes == <<"WaterUptakeProcess">>

ProcessTypes == AerosolProcessTypes \cup Range(diagProcessTypes)

\* SelectedProcesses::SelectedProcesses(): every selection starts as "none".
SelectedProcesses ==
  [activation |-> "NoActivation",
   cloudborne_wet_removal |-> "NoCloudBorneWetRemoval",
   coagulation |-> "NoCoagulation",
   condensation |-> "NoCondensation",
   dry_deposition |-> "NoDryDeposition",
   emissions |-> "NoEmissions",
   interstitial_wet_removal |-> "NoInterstitialWetRemoval",
   nucleation |-> "NoNucleation",
   calcsize |-> "NoCalcsize",
   rename_subarea |-> "NoRenameSubarea",
   resuspension |-> "NoResuspension"]

\* The values the selector's source names for the three fields it names
\* more than one value for.
NucleationValues == {"MAMNucleation", "MAMFNucleation", "NoNucleation"}
CalcsizeValues == {"MAMCalcsize", "MAMFCalcsize", "NoCalcsize"}
RenameSubareaValues ==
  {"MAMRenameSubarea", "MAMFRenameSubarea", "NoRenameSubarea"}

\* The selection records a caller may pass.
Selections ==
  {[SelectedProcesses EXCEPT !.nucleation = n, !.calcsize = c,
                             !.rename_subarea = r] :
     n \in NucleationValues, c \in CalcsizeValues, r \in RenameSubareaValues}

\* A process object: its class, the type tag it reports, and (history) how
\* often init ran on it.  nullptr is the null pointer.
nullptr == [impl |-> "nullptr", type |-> "", inits |-> 0]
NullAerosolProcess(type) ==
  [impl |-> "NullAerosolProcess", type |-> type, inits |-> 0]
MAMNucleationProcess ==
  [impl |-> "MAMNucleationProcess", type |-> "NucleationProcess", inits |-> 0]
MAMNucleationFProcess ==
  [impl |-> "MAMNucleationFProcess", type |-> "NucleationProcess", inits |-> 0]
MAMCalcsizeProcess ==
  [impl |-> "MAMCalcsizeProcess", type |-> "CalcsizeProcess", inits |-> 0]
MAMCalcsizeFProcess ==
  [impl |-> "MAMCalcsizeFProcess", type |-> "CalcsizeProcess", inits |-> 0]
MAMRenamSubareaProcess ==
  [impl |-> "MAMRenamSubareaProcess", type |-> "RenameSubareaProcess",
   inits |-> 0]
Mam4WaterUptake ==
  [impl |-> "Mam4WaterUptake", type |-> "WaterUptakeProcess", inits |-> 0]

\* The branch of a type that knows no implementation, built with another
\* type's tag.
OnlyNone_ForeignTag(type, selection, none) ==
  IF selection = none THEN NullAerosolProcess("ActivationProcess") ELSE nullptr

\* The branch of a type for which the selector knows no implementation:
\* if (selection == None) process = new NullAerosolProcess(type);
OnlyNone(type, selection, none) ==
  IF selection = none THEN NullAerosolProcess(type) ELSE nullptr

\* The value of `process` when the chain of branches is left (line 88).
SelectedProcess(type, selections) ==
  IF type = "ActivationProcess" THEN
    OnlyNone(type, selections.activation, "NoActivation")
  ELSE IF type = "CloudBorneWetRemovalProcess" THEN
    OnlyNone(type, selections.cloudborne_wet_removal,
             "NoCloudBorneWetRemoval")
  ELSE IF type = "CoagulationProcess" THEN
    OnlyNone(type, selections.coagulation, "NoCoagulation")
  ELSE IF type = "CondensationProcess" THEN
    OnlyNone(type, selections.condensation, "NoCondensation")
  ELSE IF type = "DryDepositionProcess" THEN
    \* line 41 reads the cloud-borne wet removal selection
    OnlyNone(type, selections.cloudborne_wet_removal,
             "NoCloudBorneWetRemoval")
  ELSE IF type = "EmissionsProcess" THEN
    OnlyNone(type, selections.emissions, "NoEmissions")
  ELSE IF type = "InterstitialWetRemovalProcess" THEN
    OnlyNone(type, selections.interstitial_wet_removal,
             "NoInterstitialWetRemoval")
  ELSE IF type = "NucleationProcess" THEN
    IF selections.nucleation = "MAMNucleation" THEN MAMNucleationProcess
    ELSE IF HAERO_FORTRAN /\ selections.nucleation = "MAMFNucleation"
      THEN MAMNucleationFProcess
    ELSE IF selections.nucleation = "NoNucleation"
      THEN NullAerosolProcess(type)
    ELSE nullptr
  ELSE IF type = "CalcsizeProcess" THEN
    IF selections.calcsize = "MAMCalcsize" THEN MAMCalcsizeProcess
    ELSE IF HAERO_FORTRAN /\ selections.calcsize = "MAMFCalcsize"
      THEN MAMCalcsizeFProcess
    ELSE IF selections.calcsize = "NoCalcsize" THEN NullAerosolProcess(type)
    ELSE nullptr
  ELSE IF type = "RenameSubareaProcess" THEN
    IF selections.rename_subarea = "MAMRenameSubarea"
      THEN MAMRenamSubareaProcess
    \* lines 78-79: the Fortran branch has an empty body
    ELSE IF HAERO_FORTRAN /\ selections.rename_subarea = "MAMFRenameSubarea"
      THEN nullptr
    ELSE IF selections.rename_subarea = "NoRenameSubarea"
      THEN NullAerosolProcess(type)
    ELSE nullptr
  ELSE IF type = "ResuspensionProcess" THEN
    OnlyNone(type, selections.resuspension, "NoResuspension")
  ELSE nullptr

NoProcessMessage == "No aerosol process was selected!"

\* The requirement of line 88, never failing.
Required_Skipped(process) == TRUE

\* EKAT_REQUIRE_MSG(process != nullptr, ...)
Required(process) == process # nullptr

\* select_aerosol_process: the process returned, or the fatal error raised
\* in its place.
select_aerosol_process(type, selections) ==
  LET process == SelectedProcess(type, selections) IN
  IF Required(process)
  THEN [fatal |-> "", process |-> process]
  ELSE [fatal |-> NoProcessMessage, process |-> nullptr]

\* The selectors Model::Model calls.
select_prognostic_process(type, parameterizations) ==
  select_aerosol_process(type, parameterizations)
select_diagnostic_process(type, parameterizations) ==
  IF type = "WaterUptakeProcess"
  THEN [fatal |-> "", process |-> Mam4WaterUptake]
  ELSE [fatal |-> NoProcessMessage, process |-> nullptr]

\* process->init(*this)
init(process) == [process EXCEPT !.inits = @ + 1]

\* The position in `types` of the first type whose selection is fatal, one
\* past the end when there is none.  selected[p] is what the selector gives
\* for type p.
FirstFatal(types, selected) ==
  LET bad == {i \in 1..Len(types) : selected[types[i]].fatal # ""} IN
  IF bad = {} THEN Len(types) + 1
  ELSE CHOOSE i \in bad : \A j \in bad : i <= j

\* The loop of the constructor that leaves the last type of the array out.
ResolveAll_SkipsLast(types, selected) ==
  [p \in {types[i] : i \in 1..(Len(types) - 1)} |->
     init(selected[p].process)]

\* for (auto p: types) { table[p] = select(p, parameterizations);
\*                       table[p]->init(*this); }
\* The table as the loop leaves it: complete, or filled up to the type at
\* which the selector raised its error.
ResolveAll(types, selected) ==
  LET n == FirstFatal(types, selected) - 1 IN
  [p \in {types[i] : i \in 1..n} |-> init(selected[p].process)]

\* Model::Model: lines 24-40 build the association, lines 42-64 the
\* process tables.
ModelConstructor ==
  /\ mpc = "start"
  /\ LET built == [m \in 1..Len(modes_) |->
                     AssociationFor(modes_, aero_species_, mode_species, m - 1)]
         stray == {k \in UnresolvedKeys(modes_, mode_species) :
                     mode_species[k] # <<>>} IN
       /\ heap_corrupt' = (stray # {})
       /\ \/ species_for_mode_' = built
          \* a write past the end may land in another mode's list
          \/ /\ stray # {}
             /\ \E m \in 1..Len(modes_) :
                  species_for_mode_' =
                    [built EXCEPT ![m] = Append(@, Len(aero_species_))]
  /\ LET progs == ResolveAll(progProcessTypes,
                            [p \in Range(progProcessTypes) |->
                               select_prognostic_process(p,
                                                         parameterizations_)])
         progs_done == DOMAIN progs = Range(progProcessTypes)
         diags == IF progs_done
                  THEN ResolveAll(diagProcessTypes,
                                  [p \in Range(diagProcessTypes) |->
                                     select_diagnostic_process(
                                       p, parameterizations_)])
                  ELSE <<>>
         done == progs_done /\ DOMAIN diags = Range(diagProcessTypes) IN
       /\ prog_processes_' = progs
       /\ diag_processes_' = diags
       /\ mpc' = IF done THEN "built" ELSE "failed"
       /\ last' = [op |-> "Model", type |-> "",
                   outcome |-> IF done THEN "ok" ELSE NoProcessMessage,
                   invoked |-> <<>>, before |-> <<>>]
  /\ query' = <<>>
  /\ UNCHANGED <<modes_, aero_species_, mode_species>>
  /\ UNCHANGED <<HAERO_FORTRAN, parameterizations_, prognostics, diagnostics,
                 tendencies>>
  /\ UNCHANGED atmVars
  /\ UNCHANGED <<chemVars, toolVars>>

\* What a read of aero_species_[index] can give: the species there, or
\* anything when the index is past the end.
Garbage == "<garbage>"
SpeciesAt(index) ==
  IF index < Len(aero_species_) THEN {aero_species_[index + 1]}
  ELSE SpeciesNames \cup {Garbage}

\* Model::aerosol_species_for_mode, for a valid mode index.  The method is
\* const: one call on each constructed Model shows everything it can return.
AerosolSpeciesForMode ==
  /\ mpc = "built"
  /\ query = <<>>
  /\ \E mode_index \in 0..(Len(species_for_mode_) - 1) :
       LET idx == species_for_mode_[mode_index + 1] IN
       \E species \in [1..Len(idx) -> SpeciesNames \cup {Garbage}] :
         /\ \A s \in 1..Len(idx) : species[s] \in SpeciesAt(idx[s])
         /\ query' = [mode_index |-> mode_index, species |-> species]
  /\ UNCHANGED <<modes_, aero_species_, mode_species, species_for_mode_, mpc,
                 heap_corrupt>>
  /\ UNCHANGED <<procVars, atmVars>>
  /\ UNCHANGED <<chemVars, toolVars>>

----------------------------------------------------------------------------
(* haero::Model: diagnostics and process dispatch, model.cpp *)

\* The diagnostic variables a process updates and therefore needs.
RequiredVars(process) ==
  IF process.impl = "Mam4WaterUptake"
  THEN {"aero_water", "total_aero_water", "mean_wet_diameter", "wet_density"}
  ELSE {}

\* process->prepare(diags): the variables the process needs are added when
\* they are not there.
prepare(process, diags) ==
  LET old == diags.vars
      names == DOMAIN old \cup RequiredVars(process) IN
  [diags EXCEPT !.vars = [v \in names |-> IF v \in DOMAIN old THEN old[v]
                                          ELSE 0]]

\* process->run(model, t, dt, prognostics, diagnostics, tendencies): the
\* tendencies it leaves.  The null process leaves them as they are.
run(process, time, step, progs, diags, tends) ==
  IF process.impl = "NullAerosolProcess" THEN tends
  ELSE 1 + ((progs + step) % 2)

\* process->update(model, t, prognostics, diagnostics): the diagnostics it
\* leaves.
update(process, time, progs, diags) ==
  [diags EXCEPT !.vars = [v \in DOMAIN @ |->
                            IF v \in RequiredVars(process) THEN 1 + progs
                            ELSE @[v]]]

\* Lines 97-102: one species count per mode, no variable yet.  prepared is
\* history: how often prepare ran on the object, per diagnostic process.
\* The column, level and gas dimensions are the same for every object.
EmptyDiagnostics ==
  [num_aero_species |-> [m \in 1..Len(modes_) |-> Len(species_for_mode_[m])],
   vars |-> <<>>,
   prepared |-> [p \in DOMAIN diag_processes_ |-> 0]]

\* Lines 106-108: the loop over diag_processes_.
RECURSIVE PrepareAll(_, _, _)
PrepareAll(diags, processes, keys) ==
  IF keys = {} THEN diags
  ELSE LET p == CHOOSE k \in keys : TRUE
           prepared == prepare(processes[p], diags) IN
       PrepareAll([prepared EXCEPT !.prepared[p] = @ + 1], processes,
                  keys \ {p})

\* create_diagnostics without its loop over the diagnostic processes.
create_diagnostics_Unprepared == EmptyDiagnostics

\* Model::create_diagnostics
create_diagnostics ==
  PrepareAll(EmptyDiagnostics, diag_processes_, DOMAIN diag_processes_)

NoneAvailableMessage == "No process of the selected type is available!"
NullPointerMessage == "Null process pointer encountered!"
InvalidTypeMessage == "Invalid process type encountered!"

\* The checks of run_process without the comparison of the type tags.
RunProcessChecks_NoTagCheck(table, type) ==
  IF type \notin DOMAIN table THEN NoneAvailableMessage
  ELSE IF table[type] = nullptr THEN NullPointerMessage
  ELSE "ok"

\* Lines 118-124: the three requirements of run_process, "ok" when all hold.
RunProcessChecks(table, type) ==
  IF type \notin DOMAIN table THEN NoneAvailableMessage
  ELSE IF table[type] = nullptr THEN NullPointerMessage
  ELSE IF table[type].type # type THEN InvalidTypeMessage
  ELSE "ok"

\* The checks of update_state without the comparison of the type tags.
UpdateStateChecks_NoTagCheck(table, type) ==
  IF type \notin DOMAIN table THEN NoneAvailableMessage
  ELSE IF table[type] = nullptr THEN NullPointerMessage
  ELSE "ok"

\* Lines 132-138: the three requirements of update_state.
UpdateStateChecks(table, type) ==
  IF type \notin DOMAIN table THEN NoneAvailableMessage
  ELSE IF table[type] = nullptr THEN NullPointerMessage
  ELSE IF table[type].type # type THEN InvalidTypeMessage
  ELSE "ok"

\* The step sizes and times callers pass.
TimeSteps == {1, 2}
Times == {0}

\* What a caller of the Model can observe before a call.
CallerView ==
  [prognostics |-> prognostics, diagnostics |-> diagnostics,
   tendencies |-> tendencies, prog_processes_ |-> prog_processes_,
   diag_processes_ |-> diag_processes_,
   parameterizations_ |-> parameterizations_,
   metadata |-> <<modes_, aero_species_, species_for_mode_>>,
   atmosphere |-> atmosphere]

\* A direct call of the selector with the caller's selections.
SelectProcess ==
  /\ mpc = "start"
  /\ last = <<>>
  /\ \E type \in AerosolProcessTypes :
       LET r == select_aerosol_process(type, parameterizations_) IN
       /\ last' = [op |-> "select_aerosol_process", type |-> type,
                   outcome |-> IF r.fatal = "" THEN "ok" ELSE r.fatal,
                   invoked |-> <<>>, before |-> CallerView,
                   returned |-> r.process]
       /\ mpc' = IF r.fatal = "" THEN mpc ELSE "aborted"
  /\ UNCHANGED <<HAERO_FORTRAN, parameterizations_, prog_processes_,
                 diag_processes_, prognostics, diagnostics, tendencies>>
  /\ UNCHANGED <<modes_, aero_species_, mode_species, species_for_mode_,
                 heap_corrupt, query>>
  /\ UNCHANGED <<atmVars, chemVars, toolVars>>

CreateDiagnostics ==
  /\ mpc = "built"
  /\ diagnostics' = create_diagnostics
  /\ last' = [op |-> "create_diagnostics", type |-> "", outcome |-> "ok",
              invoked |-> <<>>, before |-> CallerView]
  /\ UNCHANGED <<HAERO_FORTRAN, parameterizations_, prog_processes_,
                 diag_processes_, prognostics, tendencies>>
  /\ UNCHANGED <<assocVars, atmVars, chemVars, toolVars>>

\* run_process adding the tendencies to the prognostics.
run_process_Integrates(table, type, time, step, progs, diags, tends) ==
  LET check == RunProcessChecks(table, type)
      given == <<time, step, progs, diags, tends>>
      tends_out == IF check = "ok"
                   THEN run(table[type], time, step, progs, diags, tends)
                   ELSE tends IN
  [outcome |-> check, given |-> given,
   invoked |-> IF check = "ok"
               THEN <<[process |-> table[type], args |-> given]>> ELSE <<>>,
   prognostics |-> progs + tends_out, diagnostics |-> diags,
   tendencies |-> tends_out]

\* Model::run_process: how the call ends, the process invocations it made,
\* and the caller's three objects as it leaves them.
run_process(table, type, time, step, progs, diags, tends) ==
  LET check == RunProcessChecks(table, type)
      given == <<time, step, progs, diags, tends>> IN
  [outcome |-> check, given |-> given,
   invoked |-> IF check = "ok"
               THEN <<[process |-> table[type], args |-> given]>> ELSE <<>>,
   prognostics |-> progs, diagnostics |-> diags,
   tendencies |-> IF check = "ok"
                  THEN run(table[type], time, step, progs, diags, tends)
                  ELSE tends]

\* Model::update_state, likewise.
update_state(table, type, time, progs, diags) ==
  LET check == UpdateStateChecks(table, type)
      given == <<time, progs, diags>> IN
  [outcome |-> check, given |-> given,
   invoked |-> IF check = "ok"
               THEN <<[process |-> table[type], args |-> given]>> ELSE <<>>,
   prognostics |-> progs,
   diagnostics |-> IF check = "ok"
                   THEN update(table[type], time, progs, diags)
                   ELSE diags]

\* A call of run_process with the Prognostics, Diagnostics and Tendencies
\* the caller holds.  A failed requirement ends the program.
RunProcess ==
  /\ mpc = "built"
  /\ diagnostics # <<>>
  /\ \E type \in ProcessTypes, time \in Times, step \in TimeSteps :
       LET r == run_process(prog_processes_, type, time, step, prognostics,
                            diagnostics, tendencies) IN
       /\ prognostics' = r.prognostics
       /\ diagnostics' = r.diagnostics
       /\ tendencies' = r.tendencies
       /\ last' = [op |-> "run_process", type |-> type,
                   outcome |-> r.outcome, invoked |-> r.invoked,
                   before |-> CallerView, given |-> r.given]
       /\ mpc' = IF r.outcome = "ok" THEN mpc ELSE "fatal"
  /\ UNCHANGED <<HAERO_FORTRAN, parameterizations_, prog_processes_,
                 diag_processes_>>
  /\ UNCHANGED <<modes_, aero_species_, mode_species, species_for_mode_,
                 heap_corrupt, query>>
  /\ UNCHANGED <<atmVars, chemVars, toolVars>>

\* A call of update_state.
UpdateState ==
  /\ mpc = "built"
  /\ diagnostics # <<>>
  /\ \E type \in ProcessTypes, time \in Times :
       LET r == update_state(diag_processes_, type, time, prognostics,
                             diagnostics) IN
       /\ prognostics' = r.prognostics
       /\ diagnostics' = r.diagnostics
       /\ last' = [op |-> "update_state", type |-> type,
                   outcome |-> r.outcome, invoked |-> r.invoked,
                   before |-> CallerView, given |-> r.given]
       /\ mpc' = IF r.outcome = "ok" THEN mpc ELSE "fatal"
  /\ UNCHANGED <<HAERO_FORTRAN, parameterizations_, prog_processes_,
                 diag_processes_, tendencies>>
  /\ UNCHANGED <<modes_, aero_species_, mode_species, species_for_mode_,
                 heap_corrupt, query>>
  /\ UNCHANGED <<atmVars, chemVars, toolVars>>

\* The association tables of the dispatch specification: every key is a
\* mode, so the constructor writes inside species_for_mode_.
DispatchTables ==
  {<<>>, [m \in ModeNames |-> IF m = "aitken" THEN <<"SO4">>
                              ELSE <<"SO4", "POM">>]}

InitProc ==
  /\ modes_ = <<"aitken", "accum">>
  /\ aero_species_ = <<"SO4", "POM">>
  /\ mode_species \in DispatchTables
  /\ species_for_mode_ = <<>>
  /\ mpc = "start"
  /\ heap_corrupt = FALSE
  /\ query = <<>>
  /\ HAERO_FORTRAN \in BOOLEAN
  /\ parameterizations_ \in Selections
  /\ prognostics \in 0..1
  /\ tendencies \in 0..1
  /\ ProcBlank
  /\ AtmIdle
  /\ ChemIdle
  /\ ToolIdle
NextProc ==
  \/ SelectProcess
  \/ ModelConstructor
  \/ CreateDiagnostics
  \/ RunProcess
  \/ UpdateState
SpecProc == InitProc /\ [][NextProc]_vars

\* The association specification: any lists and table, default selections.
InitModel ==
  /\ modes_ \in Arrangements(ModeNames)
  /\ aero_species_ \in Arrangements(SpeciesNames)
  /\ \E keys \in SUBSET TableKeys :
       mode_species \in [keys -> Arrangements(TableSpecies)]
  /\ species_for_mode_ = <<>>
  /\ mpc = "start"
  /\ heap_corrupt = FALSE
  /\ query = <<>>
  /\ HAERO_FORTRAN = FALSE
  /\ parameterizations_ = SelectedProcesses
  /\ prognostics = 0
  /\ tendencies = 0
  /\ ProcBlank
  /\ AtmIdle
  /\ ChemIdle
  /\ ToolIdle
NextModel == ModelConstructor \/ AerosolSpeciesForMode
SpecModel == InitModel /\ [][NextModel]_vars

----------------------------------------------------------------------------
(* Properties of the Model *)

\* C10: aerosol_species_for_mode(i) returns exactly the species of S named
\* in A[M[i].name], in the order A gives them.
CE_C10 ==
  mpc = "built" /\ query # <<>> =>
    LET name == modes_[query.mode_index + 1]
        named == IF name \in DOMAIN mode_species
                 THEN mode_species[name] ELSE <<>>
        InS(n) == \E i \in 1..Len(aero_species_) : aero_species_[i] = n IN
    query.species = SelectSeq(named, InS)

----------------------------------------------------------------------------
(* Properties of the driver *)

Constructed == pc \notin {"start", "failed"}
InCall == pc \in {"loop", "kernel_done", "written"}
Returned == pc = "ready" /\ ncalls >= 1

\* Element i's time has reached 0.9999 * t_end.
Reached(i) == t[i] * 10000 >= LoopTend * 9999
AllReached == \A i \in Batch : Reached(i)

\* C1: in every call of either entry point, whatever the kernel returns, at
\* most max_time_iterations batched steps are launched; at the loop test the
\* launches equal iter, and once the cap is reached the only step left is the
\* return.
Thm_C1 ==
  Constructed =>
    /\ launched <= solver_params_.max_time_iterations
    /\ iter <= solver_params_.max_time_iterations
    /\ (pc \in {"loop", "ready"} => launched = iter)
    /\ (pc = "loop" /\ iter = solver_params_.max_time_iterations
          => ~ENABLED RunDeviceBatch /\ ENABLED Return)

Wit_C1 ==
  /\ Returned
  /\ entry = "noargs"
  /\ solver_params_.max_time_iterations >= 2
  /\ launched = solver_params_.max_time_iterations

\* C2: stepping ends before the cap if and only if every element's time is at
\* least 0.9999 * t_end: at a loop test after some step with every element
\* there, no further step is launched; and while some element is below and
\* the cap is not reached, another step is launched.
CE_C2 ==
  pc = "loop" =>
    /\ (iter >= 1 /\ AllReached => ~LoopTest)
    /\ (~AllReached /\ iter < solver_params_.max_time_iterations => LoopTest)

StepMin == solver_params_.tadv_default._dtmin
StepMax == solver_params_.tadv_default._dtmax
StepsInBounds ==
  \A i \in Batch :
    /\ StepMin <= dt[i] /\ dt[i] <= StepMax
    /\ StepMin <= tadv[i]._dt /\ tadv[i]._dt <= StepMax

\* C3 as stated: at every point of every call, every element's step size and
\* the step size in its time-advance descriptor lie in [dtmin, dtmax].
CE_C3 == InCall => StepsInBounds

\* C3 amended: the same, for a document whose dtmin does not exceed its dtmax.
Thm_C3 == InCall /\ StepMin <= StepMax => StepsInBounds

Wit_C3 ==
  /\ pc = "loop" /\ iter >= 1 /\ nbatch_ = 2
  /\ StepMin < StepMax
  /\ tadv[1]._dt = StepMin /\ tadv[2]._dt = StepMax
  /\ dt[1] = StepMin /\ dt[2] = StepMax

\* One outer step, kernel then carry-over, as a function of the descriptors
\* and state rows before it.
OuterStep(kmcd, tadvs, rows) ==
  LET out == runDeviceBatch(kmcd, tadvs, rows)
      ts == [i \in DOMAIN tadvs |-> out[i].t]
      dts == [i \in DOMAIN tadvs |-> out[i].dt]
      carried == CarryOverBatch(tadvs, ts, dts) IN
  [i \in DOMAIN tadvs |->
     [t |-> ts[i], dt |-> dts[i], state |-> out[i].state,
      tadv |-> carried[i]]]

BatchOrders(S) == {p \in [S -> S] : \A a, b \in S : p[a] = p[b] => a = b}
Permuted(f, p) == [i \in DOMAIN p |-> f[p[i]]]

\* C4: after the kernel of a step (the host state mirror still holds the rows
\* from before it), the times, step sizes and rows it left and the
\* descriptors the carry-over writes are, element by element, what the step
\* gives for that element alone, and the step on the permuted batch gives the
\* permuted results.
Thm_C4 ==
  pc = "kernel_done" =>
    LET carried == CarryOverBatch(tadv, t, dt)
        post == [i \in Batch |->
                   [t |-> t[i], dt |-> dt[i], state |-> state_[i],
                    tadv |-> carried[i]]] IN
    /\ \A i \in Batch :
         OuterStep(kmcd_, <<tadv[i]>>, <<state_host_[i]>>)[1] = post[i]
    /\ \A p \in BatchOrders(Batch) :
         OuterStep(kmcd_, Permuted(tadv, p), Permuted(state_host_, p))
           = Permuted(post, p)

Wit_C4 ==
  /\ pc = "kernel_done" /\ nbatch_ = 2
  /\ t[1] # t[2] /\ dt[1] # dt[2] /\ state_[1] # state_[2]

\* The lines the current call has appended to the sink.
CallLines == SubSeq(fout_, mark + 1, Len(fout_))

\* C5: when a call of either entry point on a single-batch solver returns
\* after k iterations, it has appended k + 2 lines: the header, the initial
\* condition with index -1, then the records 0 .. k-1 in order; after the
\* first call these are the whole sink.
Thm_C5 ==
  Returned /\ nbatch_ = 1 =>
    /\ Len(CallLines) = launched + 2
    /\ CallLines[1].kind = "header"
    /\ CallLines[2].kind = "record" /\ CallLines[2].iter = -1
    /\ \A k \in 0..(launched - 1) :
         CallLines[k + 3].kind = "record" /\ CallLines[k + 3].iter = k
    /\ (ncalls = 1 => Len(fout_) = launched + 2)

Wit_C5 ==
  /\ Returned /\ nbatch_ = 1 /\ ncalls = 1 /\ entry = "noargs"
  /\ launched = 2 /\ Len(fout_) = 4

\* The two ways the loop test can fail.
ExitByTime == ~(tsum * 10000 <= LoopTend * 9999)
ExitByCap == ~(iter < solver_params_.max_time_iterations)

\* C6: a run ends in exactly one of CONVERGED (the loop left because the
\* time test failed, every element at the target) and ITERATION_LIMIT_REACHED
\* (the loop left at the cap, some element below the target), and which one
\* can be told from the state the call ends in.
CE_C6 ==
  Returned =>
    /\ (AllReached => ExitByTime)
    /\ (~AllReached => ExitByCap)

\* C7: no time-integration call changes the solver parameters loaded by the
\* constructor, and the no-argument entry point starts at, and stops
\* against, the loaded begin and end times.
CE_C7 ==
  Constructed =>
    /\ solver_params_ = set_params(input_file).params
    /\ (InCall /\ entry = "noargs" =>
          /\ LoopTend = set_params(input_file).params.tadv_default._tend
          /\ (iter = 0 /\ pc = "loop" =>
                \A i \in Batch :
                  t[i] = set_params(input_file).params.tadv_default._tbeg))

MissingTchem ==
  IF IsMapSection(input_file.tchem)
  THEN Range(TchemKeys) \ input_file.tchem.keys ELSE {}
MissingSolver ==
  IF IsMapSection(input_file.solver_parameters)
  THEN Range(required_nodes) \ input_file.solver_parameters.keys ELSE {}

CE_C9 ==
  pc = "ready" =>
    /\ (~IsMapSection(input_file.tchem) =>
          /\ nbatch_ = defaults_nbatch
          /\ verbose_ = defaults_verbose
          /\ team_size_ = defaults_team_size
          /\ vector_size_ = defaults_vector_size
          /\ "print_qoi_" \in assigned)
    /\ (~IsMapSection(input_file.solver_parameters) =>
          /\ solver_params_.tadv_default =
               [_tbeg |-> defaults_tbeg, _tend |-> defaults_tend,
                _dt |-> defaults_dt, _dtmin |-> defaults_dtmin,
                _dtmax |-> defaults_dtmax,
                _max_num_newton_iterations |->
                    defaults_max_num_newton_iterations,
                _num_time_iterations_per_interval |->
                    defaults_num_time_iterations_per_interval,
                _jacobian_interval |-> defaults_jacobian_interval]
          /\ solver_params_.max_time_iterations = defaults_max_time_iterations
          /\ solver_params_.atol_newton = defaults_atol_newton
          /\ solver_params_.rtol_newton = defaults_rtol_newton
          /\ solver_params_.atol_time = defaults_atol_time
          /\ solver_params_.tol_time = defaults_tol_time
          /\ solver_params_.outputfile = defaults_outputfile)

----------------------------------------------------------------------------
(* Properties of the Model's association and process tables *)

\* C11: after construction from any association table, every key of the
\* table resolved to a mode index below the number of modes, and every
\* stored species index is at least 0 and below the number of aerosol
\* species, so that no later read indexes outside the lists.
CE_C11 ==
  mpc = "built" =>
    /\ \A k \in DOMAIN mode_species : FindIndex(modes_, k) < Len(modes_)
    /\ ~heap_corrupt
    /\ \A m \in 1..Len(species_for_mode_) :
         \A s \in 1..Len(species_for_mode_[m]) :
           /\ species_for_mode_[m][s] >= 0
           /\ species_for_mode_[m][s] < Len(aero_species_)

\* The constructor of the Model has returned.
ModelBuilt == mpc \in {"built", "fatal"}

\* Some enumerated type of the Model has no implementation under the
\* Model's selections.
ResolutionFails ==
  \/ \E i \in 1..Len(progProcessTypes) :
       select_prognostic_process(progProcessTypes[i],
                                 parameterizations_).fatal # ""
  \/ \E i \in 1..Len(diagProcessTypes) :
       select_diagnostic_process(diagProcessTypes[i],
                                 parameterizations_).fatal # ""

\* C12: a constructed Model has exactly the eight prognostic keys and the one
\* diagnostic key, every entry is non-null, carries its key as type tag and
\* was initialised exactly once; and construction fails, with the selector's
\* error, exactly when some enumerated type cannot be resolved.
Thm_C12 ==
  /\ ModelBuilt =>
       /\ DOMAIN prog_processes_ =
            {"ActivationProcess", "CloudBorneWetRemovalProcess",
             "CoagulationProcess", "CondensationProcess",
             "DryDepositionProcess", "EmissionsProcess", "NucleationProcess",
             "ResuspensionProcess"}
       /\ DOMAIN diag_processes_ = {"WaterUptakeProcess"}
       /\ \A p \in DOMAIN prog_processes_ :
            /\ prog_processes_[p] # nullptr
            /\ prog_processes_[p].impl # "nullptr"
            /\ prog_processes_[p].type = p
            /\ prog_processes_[p].inits = 1
       /\ \A p \in DOMAIN diag_processes_ :
            /\ diag_processes_[p] # nullptr
            /\ diag_processes_[p].impl # "nullptr"
            /\ diag_processes_[p].type = p
            /\ diag_processes_[p].inits = 1
       /\ ~ResolutionFails
  /\ mpc = "failed" =>
       /\ ResolutionFails
       /\ last.op = "Model" /\ last.outcome = NoProcessMessage

Wit_C12 ==
  /\ mpc = "built"
  /\ last.op = "Model"
  /\ prog_processes_["NucleationProcess"].impl = "MAMNucleationProcess"
  /\ prog_processes_["ActivationProcess"].impl = "NullAerosolProcess"

\* Process tables as a wiring fault could leave them: entries missing, null
\* or tagged with another type.
FaultyTables ==
  LET keys == {"ActivationProcess", "NucleationProcess"}
      entries == {nullptr} \cup {init(NullAerosolProcess(k)) : k \in keys} IN
  UNION {[d -> entries] : d \in SUBSET keys}

\* The table has a non-null entry for the type that carries the type as tag.
Wired(table, type) ==
  /\ type \in DOMAIN table
  /\ table[type] # nullptr
  /\ table[type].type = type

LastIs(op) == last # <<>> /\ last.op = op

\* C13: run_process fails, invoking no process and leaving the tendencies,
\* when the prognostic table has no entry for the type, a null entry, or an
\* entry with another tag (for every table, faulty ones included); in every
\* other case it invokes the table's process exactly once, with the
\* arguments it was given.
Thm_C13 ==
  /\ \A table \in FaultyTables \cup {prog_processes_} :
       \A type \in ProcessTypes :
         /\ type \notin DOMAIN table =>
              RunProcessChecks(table, type) = NoneAvailableMessage
         /\ type \in DOMAIN table /\ table[type] = nullptr =>
              RunProcessChecks(table, type) = NullPointerMessage
         /\ type \in DOMAIN table /\ table[type] # nullptr
              /\ table[type].type # type =>
              RunProcessChecks(table, type) = InvalidTypeMessage
         /\ Wired(table, type) => RunProcessChecks(table, type) = "ok"
  /\ LastIs("run_process") =>
       IF Wired(last.before.prog_processes_, last.type)
       THEN /\ last.outcome = "ok"
            /\ mpc = "built"
            /\ last.invoked =
                 <<[process |-> last.before.prog_processes_[last.type],
                    args |-> last.given]>>
            /\ last.given[3] = last.before.prognostics
            /\ last.given[4] = last.before.diagnostics
            /\ last.given[5] = last.before.tendencies
       ELSE /\ last.outcome # "ok"
            /\ mpc = "fatal"
            /\ last.invoked = <<>>
            /\ tendencies = last.before.tendencies

Wit_C13 ==
  /\ LastIs("run_process")
  /\ last.type = "CalcsizeProcess"
  /\ last.outcome = NoneAvailableMessage
  /\ last.invoked = <<>>

\* Everything a run_process call can reach other than the tendencies is as
\* it was before the call.
OnlyTendenciesMayDiffer ==
  [CallerView EXCEPT !.tendencies = 0] =
    [last.before EXCEPT !.tendencies = 0]

OnlyDiagnosticsMayDiffer ==
  [CallerView EXCEPT !.diagnostics = <<>>] =
    [last.before EXCEPT !.diagnostics = <<>>]

\* C15: update_state applies the three requirements of run_process to the
\* diagnostic table (for every table, faulty ones included) and fails
\* without invoking a process when one does not hold; otherwise it invokes
\* the diagnostic process's update exactly once.  It changes only the
\* diagnostics.  A prognostic type given to update_state and a diagnostic
\* type given to run_process fail.
Thm_C15 ==
  /\ \A table \in FaultyTables \cup {diag_processes_, prog_processes_} :
       \A type \in ProcessTypes :
         UpdateStateChecks(table, type) = RunProcessChecks(table, type)
  /\ \A table \in FaultyTables \cup {diag_processes_} :
       \A type \in ProcessTypes :
         Wired(table, type) <=> UpdateStateChecks(table, type) = "ok"
  /\ LastIs("update_state") =>
       /\ OnlyDiagnosticsMayDiffer
       /\ IF Wired(diag_processes_, last.type)
          THEN /\ last.outcome = "ok"
               /\ last.invoked =
                    <<[process |-> diag_processes_[last.type],
                       args |-> <<last.given[1], last.before.prognostics,
                                  last.before.diagnostics>>]>>
               /\ diagnostics = update(diag_processes_[last.type],
                                       last.given[1], prognostics,
                                       last.before.diagnostics)
          ELSE /\ last.outcome # "ok"
               /\ mpc = "fatal"
               /\ last.invoked = <<>>
               /\ diagnostics = last.before.diagnostics
       /\ last.type \in Range(progProcessTypes) => last.outcome # "ok"
  /\ LastIs("run_process") /\ last.type \in Range(diagProcessTypes) =>
       /\ last.outcome # "ok"
       /\ mpc = "fatal"

Wit_C15 ==
  /\ LastIs("update_state")
  /\ last.type = "WaterUptakeProcess"
  /\ last.outcome = "ok"
  /\ diagnostics # last.before.diagnostics
  /\ diagnostics.vars["aero_water"] # 0

\* C16: the object create_diagnostics returns has one species count per
\* mode, taken from the mode's association; prepare ran on it once for each
\* diagnostic process of the Model; and every variable such a process needs
\* (aero_water among them) is in it, before any update_state call.
Thm_C16 ==
  /\ LastIs("create_diagnostics") =>
       /\ diagnostics.num_aero_species =
            [m \in 1..Len(modes_) |-> Len(species_for_mode_[m])]
       /\ DOMAIN diagnostics.prepared = DOMAIN diag_processes_
       /\ \A p \in DOMAIN diag_processes_ : diagnostics.prepared[p] = 1
       /\ DOMAIN diagnostics.vars =
            UNION {RequiredVars(diag_processes_[p]) :
                     p \in DOMAIN diag_processes_}
  /\ diagnostics # <<>> => "aero_water" \in DOMAIN diagnostics.vars

Wit_C16 ==
  /\ LastIs("create_diagnostics")
  /\ "aero_water" \in DOMAIN diagnostics.vars
  /\ diagnostics.num_aero_species = <<1, 2>>

----------------------------------------------------------------------------
(* Properties of the process selector *)

\* The value of the selection field that belongs to a process type.
OwnSelection(type, selections) ==
  CASE type = "ActivationProcess" -> selections.activation
    [] type = "CloudBorneWetRemovalProcess" ->
         selections.cloudborne_wet_removal
    [] type = "CoagulationProcess" -> selections.coagulation
    [] type = "CondensationProcess" -> selections.condensation
    [] type = "DryDepositionProcess" -> selections.dry_deposition
    [] type = "EmissionsProcess" -> selections.emissions
    [] type = "InterstitialWetRemovalProcess" ->
         selections.interstitial_wet_removal
    [] type = "NucleationProcess" -> selections.nucleation
    [] type = "CalcsizeProcess" -> selections.calcsize
    [] type = "RenameSubareaProcess" -> selections.rename_subarea
    [] type = "ResuspensionProcess" -> selections.resuspension

FortranValues == {"MAMFNucleation", "MAMFCalcsize", "MAMFRenameSubarea"}
NoneValues == {SelectedProcesses[f] : f \in DOMAIN SelectedProcesses}

\* The selection is one this build offers: the Fortran-backed algorithms
\* count only where they are compiled in.
ValidInBuild(selection) == selection \in FortranValues => HAERO_FORTRAN

\* C17: for every type the selector knows and every value of the type's
\* selection field valid in the build, "none" included, the selector
\* returns a non-null implementation that reports the requested type.
CE_C17 ==
  LastIs("select_aerosol_process")
    /\ ValidInBuild(OwnSelection(last.type, parameterizations_)) =>
    /\ last.outcome = "ok"
    /\ last.returned # nullptr
    /\ last.returned.type = last.type

\* C18: the selector returns a process or raises its error, never a null
\* pointer; and such an error ends construction, so that in a constructed
\* Model every enumerated prognostic type passes the requirements of
\* run_process and every enumerated diagnostic type those of update_state,
\* and no call on such a type has failed.
Thm_C18 ==
  /\ \A type \in AerosolProcessTypes, selections \in Selections :
       LET r == select_aerosol_process(type, selections) IN
       \/ r.fatal = "" /\ r.process # nullptr /\ r.process.impl # "nullptr"
       \/ r.fatal = NoProcessMessage
  /\ LastIs("select_aerosol_process") =>
       \/ last.outcome = "ok" /\ last.returned.impl # "nullptr"
       \/ last.outcome = NoProcessMessage /\ mpc = "aborted"
  /\ ModelBuilt =>
       /\ \A i \in 1..Len(progProcessTypes) :
            RunProcessChecks(prog_processes_, progProcessTypes[i]) = "ok"
       /\ \A i \in 1..Len(diagProcessTypes) :
            UpdateStateChecks(diag_processes_, diagProcessTypes[i]) = "ok"
  /\ LastIs("run_process") /\ last.type \in Range(progProcessTypes) =>
       last.outcome = "ok"
  /\ LastIs("update_state") /\ last.type \in Range(diagProcessTypes) =>
       last.outcome = "ok"

Wit_C18 ==
  /\ LastIs("run_process")
  /\ last.type = "NucleationProcess"
  /\ parameterizations_.nucleation = "MAMFNucleation"
  /\ last.outcome = "ok"
  /\ last.invoked[1].process.impl = "MAMNucleationFProcess"

----------------------------------------------------------------------------
(* haero::Atmosphere, atmosphere.hpp *)

\* The per-level quantities quantities_nonnegative tests.
CheckedQuantities ==
  {"temperature", "pressure", "vapor_mixing_ratio", "liquid_mixing_ratio",
   "ice_mixing_ratio", "cloud_liquid_number_mixing_ratio",
   "cloud_ice_number_mixing_ratio"}

\* A per-level quantity it does not test; a downdraft makes it negative.
OtherQuantities == {"updraft_vel_ice_nucleation"}

\* One level of a column: every tested quantity zero, every one positive, or
\* every one positive but a single negative one.
Levels ==
  LET level(c, neg) ==
        [q \in CheckedQuantities \cup OtherQuantities |->
           IF q \in OtherQuantities \/ q = neg THEN -1 ELSE c] IN
  {level(0, ""), level(1, "")} \cup {level(1, q) : q \in CheckedQuantities}

\* Columns of 1 .. MaxLevels levels.
Columns == UNION {[1..nk -> Levels] : nk \in 1..MaxLevels}

\* Atmosphere::num_levels
num_levels == Len(atmosphere)

\* The test of the lambda with the ice mixing ratio left out.
Violates_NoIce(k) ==
  \/ atmosphere[k].temperature < 0
  \/ atmosphere[k].pressure < 0
  \/ atmosphere[k].vapor_mixing_ratio < 0
  \/ atmosphere[k].liquid_mixing_ratio < 0
  \/ atmosphere[k].cloud_liquid_number_mixing_ratio < 0
  \/ atmosphere[k].cloud_ice_number_mixing_ratio < 0

\* The test of the lambda for level k (lines 121-125).
Violates(k) ==
  \/ atmosphere[k].temperature < 0
  \/ atmosphere[k].pressure < 0
  \/ atmosphere[k].vapor_mixing_ratio < 0
  \/ atmosphere[k].liquid_mixing_ratio < 0
  \/ atmosphere[k].ice_mixing_ratio < 0
  \/ atmosphere[k].cloud_liquid_number_mixing_ratio < 0
  \/ atmosphere[k].cloud_ice_number_mixing_ratio < 0

\* One iteration of the parallel_reduce: some thread of the team runs the
\* lambda for a level not yet examined, on its own reduction value.
Lambda ==
  /\ nonnegative = <<>>
  /\ violation # <<>>
  /\ \E k \in (1..num_levels) \ examined, thread \in 1..team :
       /\ violation' = [violation EXCEPT
                          ![thread] = IF Violates(k) THEN 1 ELSE @]
       /\ examined' = examined \cup {k}
  /\ UNCHANGED <<atmosphere, team, nonnegative>>
  /\ UNCHANGED <<assocVars, procVars, chemVars, toolVars>>

\* The threads' values are summed into violations and the method returns
\* violations == 0.
ReturnNonnegative ==
  /\ nonnegative = <<>>
  /\ violation # <<>>
  /\ examined = 1..num_levels
  /\ nonnegative' = <<SumSeq(violation) = 0>>
  /\ UNCHANGED <<atmosphere, team, examined, violation>>
  /\ UNCHANGED <<assocVars, procVars, chemVars, toolVars>>

\* quantities_nonnegative(team) is entered on a constructed Atmosphere: each
\* thread's reduction value starts at the identity of the sum.
InitAtm ==
  /\ atmosphere \in Columns
  /\ team \in 1..MaxTeam
  /\ examined = {}
  /\ violation = [thread \in 1..team |-> 0]
  /\ nonnegative = <<>>
  /\ modes_ = <<>> /\ aero_species_ = <<>> /\ mode_species = <<>>
  /\ species_for_mode_ = <<>> /\ mpc = "idle" /\ heap_corrupt = FALSE
  /\ query = <<>>
  /\ ProcIdle
  /\ ChemIdle
  /\ ToolIdle
NextAtm == Lambda \/ ReturnNonnegative
SpecAtm == InitAtm /\ [][NextAtm]_vars

\* Some tested quantity is negative at some level.
SomeNegative ==
  \E k \in 1..num_levels, q \in CheckedQuantities : atmosphere[k][q] < 0

----------------------------------------------------------------------------
(* Atmosphere::Atmosphere, atmosphere.hpp lines 24-57 *)

\* The view arguments of the constructor, in its order.
ViewArguments ==
  <<"T", "p", "qv", "qc", "nqc", "qi", "nqi", "z", "hdp", "cf", "w">>

\* The extents a caller passes: every view of one extent (0 is an empty
\* view), or one of the views after T of another extent.
ViewExtents ==
  LET all(n) == [v \in Range(ViewArguments) |-> n] IN
  {[all(n) EXCEPT ![v] = m] :
     n \in 0..MaxLevels, m \in 0..MaxLevels,
     v \in Range(ViewArguments) \ {"T"}}

\* The boundary layer heights a caller passes.
PblhValues == {-1, 0, 1}

\* EKAT_ASSERT(condition): the condition is tested in a build without NDEBUG;
\* with NDEBUG the macro expands to nothing.
EKAT_ASSERT(condition) == NDEBUG \/ condition

\* The condition of line 42.
NonEmpty(ext) == ext["T"] > 0

\* The condition of lines 45-54 without its last conjunct.
SameExtents_SkipsLast(ext) ==
  \A i \in 2..(Len(ViewArguments) - 1) : ext["T"] = ext[ViewArguments[i]]

\* The condition of lines 45-54.
SameExtents(ext) ==
  \A i \in 2..Len(ViewArguments) : ext["T"] = ext[ViewArguments[i]]

\* The condition of line 56.
NonNegativePblh(h) == h >= 0

\* The whole constructor: the members are initialised from the arguments
\* (lines 28-40), then the three assertions run in order; the first one
\* that fails ends the construction.
AtmosphereConstructor ==
  /\ views # <<>>
  /\ constructed = <<>>
  /\ constructed' =
       IF ~EKAT_ASSERT(NonEmpty(views))
       THEN [outcome |-> "asserted", condition |-> "T.extent(0) > 0"]
       ELSE IF ~EKAT_ASSERT(SameExtents(views))
       THEN [outcome |-> "asserted", condition |-> "T.extent(0) == ..."]
       ELSE IF ~EKAT_ASSERT(NonNegativePblh(pblh))
       THEN [outcome |-> "asserted", condition |-> "pblh >= 0.0"]
       ELSE [outcome |-> "built",
             num_levels_ |-> views["T"],
             extents |-> views,
             planetary_boundary_layer_height |-> pblh]
  /\ UNCHANGED <<NDEBUG, views, pblh>>
  /\ UNCHANGED <<assocVars, procVars, atmVars, chemVars, besideCtor>>

\* Any arguments, in a build with assertions and in one without.
InitCtor ==
  /\ NDEBUG \in BOOLEAN
  /\ views \in ViewExtents
  /\ pblh \in PblhValues
  /\ constructed = <<>>
  /\ AssocIdle
  /\ ProcIdle
  /\ AtmIdle
  /\ ChemIdle
  /\ BesideCtorIdle
NextCtor == AtmosphereConstructor
SpecCtor == InitCtor /\ [][NextCtor]_vars

\* What the claim asks of a constructed Atmosphere.
WellFormed(a) ==
  /\ a.num_levels_ > 0
  /\ \A v \in Range(ViewArguments) : a.extents[v] = a.num_levels_
  /\ a.planetary_boundary_layer_height >= 0

\* The arguments the claim says are refused.
Refused ==
  \/ \E u, v \in Range(ViewArguments) : views[u] # views[v]
  \/ \E v \in Range(ViewArguments) : views[v] = 0
  \/ pblh < 0

\* The constructor has run and did what the claim says.
AsClaimed_C21 ==
  constructed # <<>> =>
    /\ constructed.outcome = "built" => WellFormed(constructed)
    /\ Refused => constructed.outcome = "asserted"

----------------------------------------------------------------------------
(* ColumnPool and testing::create_column_view, testing.cpp *)

MaxRequests == 6

\* The default of the constructor's initial_num_columns (line 24).
initial_num_columns == 64

\* The null pointer; the addresses of allocations are 1, 2, ...
null_column == 0

\* The level counts create_column_view is called with.
LevelCounts == 1..MaxLevels

\* Kokkos::kokkos_malloc, count times in a row, each for entries Reals: the
\* allocator answers with addresses it has not given out before.
kokkos_malloc(h, count, entries) ==
  [heap |-> h \o [i \in 1..count |-> entries],
   ptrs |-> [i \in 1..count |-> Len(h) + i]]

\* Lines 46-50 with the loop body never breaking off.
FirstUnused_First(memory) == 0

\* Lines 46-50: the zero-based index of the first null entry of memory_,
\* num_cols_ when there is none.
FirstUnused(memory) ==
  IF \E i \in 1..Len(memory) : memory[i] = null_column
  THEN (CHOOSE i \in 1..Len(memory) :
          /\ memory[i] = null_column
          /\ \A j \in 1..(i - 1) : memory[j] # null_column) - 1
  ELSE Len(memory)

\* ColumnPool::ColumnPool (lines 24-31): initial_num_columns null entries,
\* each then assigned an allocation of num_vertical_levels Reals.
ColumnPool(h, num_vertical_levels) ==
  LET a == kokkos_malloc(h, initial_num_columns, num_vertical_levels) IN
  [heap |-> a.heap,
   pool |-> [num_levels_ |-> num_vertical_levels,
             num_cols_ |-> initial_num_columns,
             memory_ |-> a.ptrs]]

\* Lines 53-59: memory_ is resized to twice its length with null entries,
\* and kokkos_realloc of each null entry is an allocation.
Grow(h, pool) ==
  LET a == kokkos_malloc(h, pool.num_cols_, pool.num_levels_) IN
  [heap |-> a.heap,
   pool |-> [pool EXCEPT !.memory_ = @ \o a.ptrs,
                         !.num_cols_ = 2 * pool.num_cols_]]

\* ColumnPool::column_view (lines 44-63).
column_view(h, pool) ==
  LET i == FirstUnused(pool.memory_)
      g == IF i = pool.num_cols_ THEN Grow(h, pool)
           ELSE [heap |-> h, pool |-> pool] IN
  [heap |-> g.heap,
   pool |-> g.pool,
   view |-> [data |-> g.pool.memory_[i + 1], extent |-> g.pool.num_levels_]]

\* testing::create_column_view (lines 85-94): the pool of the level count is
\* looked up, constructed when there is none, and asked for a column.
CreateColumnView ==
  /\ Len(handed) < MaxRequests
  /\ \E num_levels_arg \in LevelCounts :
       LET found == num_levels_arg \in DOMAIN pools_
           c == IF found
                THEN [heap |-> heap, pool |-> pools_[num_levels_arg]]
                ELSE ColumnPool(heap, num_levels_arg)
           r == column_view(c.heap, c.pool) IN
       /\ pools_' = [n \in DOMAIN pools_ \cup {num_levels_arg} |->
                       IF n = num_levels_arg THEN r.pool ELSE pools_[n]]
       /\ heap' = r.heap
       /\ handed' = Append(handed, [requested |-> num_levels_arg,
                                    view |-> r.view])
  /\ UNCHANGED <<assocVars, procVars, atmVars, chemVars, besidePool>>

\* No pool exists before the first request.
InitPool ==
  /\ PoolIdle
  /\ AssocIdle
  /\ ProcIdle
  /\ AtmIdle
  /\ ChemIdle
  /\ BesidePoolIdle
NextPool == CreateColumnView
SpecPool == InitPool /\ [][NextPool]_vars

\* The buffer of a view is allocated, holds as many Reals as the view's
\* extent, and is a column of the pool of its level count.
ValidView(r) ==
  /\ r.view.data # null_column
  /\ r.view.data \in 1..Len(heap)
  /\ heap[r.view.data] = r.view.extent
  /\ r.requested \in DOMAIN pools_
  /\ \E k \in 1..pools_[r.requested].num_cols_ :
       pools_[r.requested].memory_[k] = r.view.data

\* C22: whatever the sequence of create_column_view requests and their
\* level counts, no two requests returned the same buffer, the buffer
\* returned for num_levels has exactly num_levels entries, and every buffer
\* handed out so far is still a valid allocation, also after its pool grew.
Thm_C22 ==
  /\ \A i, j \in 1..Len(handed) :
       i # j => handed[i].view.data # handed[j].view.data
  /\ \A i \in 1..Len(handed) :
       /\ handed[i].view.extent = handed[i].requested
       /\ ValidView(handed[i])

Wit_C22 ==
  /\ Len(handed) = 3
  /\ handed[1].requested = 2
  /\ handed[2].requested = 1
  /\ handed[3].requested = 2
  /\ pools_[2].num_cols_ > 2 * initial_num_columns
  /\ handed[1].view.data # handed[3].view.data

\* The number of requests made so far for a level count.
HandedFor(n) ==
  Cardinality({i \in 1..Len(handed) : handed[i].requested = n})

\* The capacity of a pool that started at capacity c, served h requests and
\* doubled only on a request that found every column handed out.
RECURSIVE CapacityWhenExhausted(_, _)
CapacityWhenExhausted(c, h) ==
  IF h <= c THEN c ELSE CapacityWhenExhausted(2 * c, h)

\* C25: the pool of a level count grows only when it is exhausted: a request
\* made while an allocated column has not been handed out leaves the
\* capacity unchanged, the capacity doubles exactly on a request that finds
\* every allocated column handed out, and so the first 64 requests for one
\* level count leave a fresh pool at its initial capacity.
CE_C25 ==
  \A n \in DOMAIN pools_ :
    pools_[n].num_cols_ =
      CapacityWhenExhausted(initial_num_columns, HandedFor(n))

----------------------------------------------------------------------------
(* The outer loop of time_integrate: carry-over, sequencing, consecutive
   calls *)

\* The descriptor of element i agrees with t(i) and dt(i).
Agrees(i) == tadv[i]._tbeg = t[i] /\ tadv[i]._dt = dt[i]

\* C23: after each batched step the begin time and step size of every
\* element's time-advance descriptor are overwritten with the t(i) and
\* dt(i) the step produced, before the next step is launched: whenever the
\* loop test is about to run (the start of an outer iteration), the
\* descriptor of every element agrees with t(i) and dt(i), and the kernel
\* is launched from such a state only.
Thm_C23 ==
  /\ [](pc = "loop" => \A i \in Batch : Agrees(i))
  /\ [][launched' = launched + 1 => \A i \in Batch : Agrees(i)]_vars

Wit_C23 ==
  /\ pc = "loop"
  /\ iter = 1
  /\ nbatch_ = 2
  /\ t[1] # t[2]
  /\ dt[1] # solver_params_.tadv_default._dtmin
  /\ tadv[1]._tbeg = t[1] /\ tadv[2]._tbeg = t[2]
  /\ tadv[1]._dt = dt[1]

\* A step of the outer loop is under way or about to be tested.
InLoop == pc \in {"loop", "kernel_done", "written"}

\* The lines of the record the current iteration wrote.
StepRecord == [i \in Batch |-> fout_[Len(fout_) - nbatch_ + i]]

\* C24: outer steps are strictly sequential and snapshots are taken only
\* between steps: a kernel is launched only when the loop test runs, after
\* the kernel, the snapshot and the carry-over of every earlier step (as
\* many kernels launched, records written and carry-overs done as
\* iterations counted); and the record written for iteration n holds, for
\* every element, the time, step size and state row the device arrays hold
\* after step n's kernel, the host mirrors being equal to the device arrays
\* when the record is written.
Thm_C24 ==
  /\ [](InLoop =>
          /\ launched = iter + (IF pc = "loop" THEN 0 ELSE 1)
          /\ Len(fout_) = mark + 1 + nbatch_
                          + nbatch_ * (iter + (IF pc = "written" THEN 1 ELSE 0))
          /\ pc = "written" =>
               /\ t_host = t /\ dt_host = dt /\ state_host_ = state_
               /\ \A i \in Batch :
                    StepRecord[i] = [kind |-> "record", iter |-> iter,
                                     t |-> t[i], dt |-> dt[i],
                                     state |-> state_[i]])
  /\ [][launched' = launched + 1 => pc = "loop" /\ launched = iter]_vars
  /\ [][pc = "kernel_done" =>
          t' = t /\ dt' = dt /\ state_' = state_ /\ pc' = "written"]_vars

Wit_C24 ==
  /\ pc = "written"
  /\ iter = 1
  /\ launched = 2
  /\ nbatch_ = 2
  /\ dt[1] # dt[2]
  /\ StepRecord[2].dt = dt[2]
  /\ StepRecord[2].t = t[2]
  /\ StepRecord[2].iter = 1
  /\ \E k \in 1..(Len(fout_) - nbatch_) :
       fout_[k].iter = 0 /\ fout_[k].kind = "record" /\ fout_[k].t # t[2]

\* time_integrate(tbeg, tend) has run up to its loop and launched no kernel.
EnteredArgs == pc = "loop" /\ entry = "args" /\ launched = 0

\* The line of the initial-condition record of the current call for
\* element i: it follows the header line.
InitialRecord(i) == fout_[mark + 1 + i]

\* C27: each call of time_integrate(tbeg, tend) starts every batch element
\* at time tbeg with step size dtmin and leaves the state matrix as the
\* previous call (or the constructor) left it, and its iteration -1 record
\* shows that state.
Thm_C27 ==
  /\ [](EnteredArgs =>
          \A i \in Batch :
            /\ t[i] = arg[1]
            /\ dt[i] = solver_params_.tadv_default._dtmin
            /\ InitialRecord(i) =
                 [kind |-> "record", iter |-> -1, t |-> arg[1],
                  dt |-> solver_params_.tadv_default._dtmin,
                  state |-> state_[i]])
  /\ [][pc = "ready" /\ pc' = "loop" => state_' = state_]_vars

Wit_C27 ==
  /\ EnteredArgs
  /\ ncalls = 2
  /\ arg = <<10000, 20000>>
  /\ mark > 0
  /\ fout_[mark].kind = "record" /\ fout_[mark].iter >= 0
  /\ InitialRecord(1).state = fout_[mark - nbatch_ + 1].state
  /\ InitialRecord(1).state # fout_[2].state

----------------------------------------------------------------------------
(* select_aerosol_process as a function of the whole selection record *)

\* A value of a selection field's enumeration that the selector's source
\* does not name.
OtherAlgorithm == "OtherAlgorithm"

\* The values a selection field can hold: those the selector names for it
\* and one it does not name.
FieldValues(f) ==
  (CASE f = "nucleation" -> NucleationValues
     [] f = "calcsize" -> CalcsizeValues
     [] f = "rename_subarea" -> RenameSubareaValues
     [] OTHER -> {SelectedProcesses[f]}) \cup {OtherAlgorithm}

\* Selection records: the default-constructed one (lines 7-18) with at most
\* one field assigned afterwards.
SelectionRecords ==
  UNION {{[SelectedProcesses EXCEPT ![f] = v] : v \in FieldValues(f)} :
           f \in DOMAIN SelectedProcesses}

\* select_aerosol_process is called for one type with each of two records.
SelectBoth ==
  /\ selections_pair # <<>>
  /\ answers = <<>>
  /\ answers' = [k \in 1..2 |->
                    select_aerosol_process(requested, selections_pair[k])]
  /\ UNCHANGED <<selections_pair, requested>>
  /\ UNCHANGED <<assocVars, procVars, atmVars, chemVars, besideSel>>

InitSel ==
  /\ selections_pair \in [1..2 -> SelectionRecords]
  /\ requested \in AerosolProcessTypes
  /\ answers = <<>>
  /\ HAERO_FORTRAN \in BOOLEAN
  /\ parameterizations_ = <<>>
  /\ prognostics = 0
  /\ tendencies = 0
  /\ ProcBlank
  /\ AssocIdle
  /\ AtmIdle
  /\ ChemIdle
  /\ BesideSelIdle
NextSel == SelectBoth
SpecSel == InitSel /\ [][NextSel]_vars

\* C26: the selector's answer for a type T depends only on T and on the
\* selection field that belongs to T: two selection records that agree on
\* T's own field get the same process, or the same fatal error, whatever
\* their other fields hold; for DryDepositionProcess the dry_deposition
\* field alone decides.
CE_C26 ==
  /\ answers # <<>>
  /\ OwnSelection(requested, selections_pair[1])
       = OwnSelection(requested, selections_pair[2])
  => answers[1] = answers[2]

----------------------------------------------------------------------------
(* skywalker: InputData::operator[] and ParameterWalk::gather_inputs,
   skywalker.cpp lines 109-169 and 199-313.  The parameters are the six
   atmosphere parameters; an InputData is the record of its six atmosphere
   members. *)

MaxValues == 2

\* The members of InputData that operator[] returns for atmosphere
\* parameters, in the order lines 148-160 search for their names.
Searched ==
  <<"temperature", "pressure", "relative_humidity", "height",
    "hydrostatic_dp", "planetary_boundary_layer_height">>

\* The parameter names, in the order a std::map iterates over them.
ParamOrder ==
  <<"atmosphere.height", "atmosphere.hydrostatic_dp",
    "atmosphere.planetary_boundary_layer_height", "atmosphere.pressure",
    "atmosphere.relative_humidity", "atmosphere.temperature">>

\* For each parameter name, the searched strings that param_name.find
\* finds in it: the name of its own member, and "height" also in
\* "planetary_boundary_layer_height".
Occurs ==
  [name \in Range(ParamOrder) |->
     CASE name = "atmosphere.height" -> {"height"}
       [] name = "atmosphere.hydrostatic_dp" -> {"hydrostatic_dp"}
       [] name = "atmosphere.planetary_boundary_layer_height" ->
            {"height", "planetary_boundary_layer_height"}
       [] name = "atmosphere.pressure" -> {"pressure"}
       [] name = "atmosphere.relative_humidity" -> {"relative_humidity"}
       [] name = "atmosphere.temperature" -> {"temperature"}]

\* InputData::operator[] (lines 147-160): the member the reference it
\* returns refers to, the first whose name is found in param_name.
Member(param_name) ==
  Searched[CHOOSE i \in 1..Len(Searched) :
             /\ Searched[i] \in Occurs[param_name]
             /\ \A j \in 1..(i - 1) : Searched[j] \notin Occurs[param_name]]

\* The lists of values of a parameter: 1, 2, ... up to a length.
ValueLists == {[i \in 1..n |-> i] : n \in 1..MaxValues}

\* The ensembles a ParameterWalk holds.
Ensembles == UNION {[S -> ValueLists] : S \in SUBSET Range(ParamOrder)}

\* The reference input: every member differs from every listed value.
RefInput == [f \in Range(Searched) |-> 0]

\* The sets of excluded parameter names.
ExcludedSets == {{}} \cup {{p} : p \in Range(ParamOrder)}

RECURSIVE Product(_)
Product(sizes) ==
  IF sizes = <<>> THEN 1 ELSE Head(sizes) * Product(Tail(sizes))

\* The parameters of the ensemble in iteration order.
Params(ens) == SelectSeq(ParamOrder, LAMBDA p : p \in DOMAIN ens)

\* Lines 202-208: the parameters counted, those not excluded.
Counted(ens, excluded) ==
  SelectSeq(Params(ens), LAMBDA p : p \notin excluded)

\* Lines 219-308: the parameters walked are those reached from
\* ensemble.begin() by num_params - 1 increments.
Walked(ens, excluded, num_params) == SubSeq(Params(ens), 1, num_params)

\* The index arithmetic of lines 231-232, 247-249, 269-272, 297-303: j1 is
\* l divided by the product of the later sizes, and each later index is
\* what is left, divided by the product of the sizes after it.
RECURSIVE Indices(_, _)
Indices(left, sizes) ==
  IF sizes = <<>> THEN <<>>
  ELSE LET stride == Product(Tail(sizes))
           j == left \div stride IN
       <<j>> \o Indices(left - stride * j, Tail(sizes))

\* vals[j]: the element, or whatever a read past the end of the vector
\* gives.
At(vals, j, garbage) == IF j < Len(vals) THEN vals[j + 1] ELSE garbage

\* inputs[l][name1] = vals1[j1]; ... in this order, on a copy of the
\* reference input.
RECURSIVE Assigned(_, _, _, _, _)
Assigned(input, names, ens, js, garbage) ==
  IF names = <<>> THEN input
  ELSE Assigned([input EXCEPT ![Member(Head(names))] =
                                 At(ens[Head(names)], Head(js), garbage)],
                Tail(names), ens, Tail(js), garbage)

InvalidNumberMessage(num_params) ==
  <<"Invalid number of overridden parameters (", num_params,
    ", must be 1-5).">>

\* ParameterWalk::gather_inputs.
gather_inputs(ens, ref, excluded, garbage) ==
  LET counted == Counted(ens, excluded)
      num_inputs == Product([k \in 1..Len(counted) |-> Len(ens[counted[k]])])
      num_params == Len(counted)
      names == Walked(ens, excluded, num_params)
      sizes == [k \in 1..Len(names) |-> Len(ens[names[k]])] IN
  IF ~(num_params >= 1 /\ num_params <= 5)
  THEN [outcome |-> "fatal", what |-> InvalidNumberMessage(num_params),
        inputs |-> <<>>, undefined |-> FALSE]
  ELSE [outcome |-> "returned", what |-> <<>>,
        inputs |-> [l1 \in 1..num_inputs |->
                      Assigned(ref, names, ens, Indices(l1 - 1, sizes),
                               garbage)],
        undefined |-> \E l1 \in 1..num_inputs, k \in 1..Len(names) :
                        Indices(l1 - 1, sizes)[k] >= sizes[k]]

\* A call of gather_inputs; a read past the end of a vector gives any value.
GatherInputs ==
  /\ ref_input # <<>>
  /\ gathered = <<>>
  /\ \E garbage \in 0..MaxValues :
       /\ gathered' = gather_inputs(ensemble, ref_input, excluded_params,
                                    garbage)
       /\ gathered'.undefined \/ garbage = 0
  /\ UNCHANGED <<ensemble, ref_input, excluded_params>>
  /\ UNCHANGED <<assocVars, procVars, atmVars, chemVars, besideWalk>>

InitWalk ==
  /\ ensemble \in Ensembles
  /\ ref_input = RefInput
  /\ excluded_params \in ExcludedSets
  /\ gathered = <<>>
  /\ AssocIdle
  /\ ProcIdle
  /\ AtmIdle
  /\ ChemIdle
  /\ BesideWalkIdle
NextWalk == GatherInputs
SpecWalk == InitWalk /\ [][NextWalk]_vars

\* The member a parameter is named after.
OwnMember ==
  [name \in Range(ParamOrder) |->
     CASE name = "atmosphere.height" -> "height"
       [] name = "atmosphere.hydrostatic_dp" -> "hydrostatic_dp"
       [] name = "atmosphere.planetary_boundary_layer_height" ->
            "planetary_boundary_layer_height"
       [] name = "atmosphere.pressure" -> "pressure"
       [] name = "atmosphere.relative_humidity" -> "relative_humidity"
       [] name = "atmosphere.temperature" -> "temperature"]

\* The parameters of the ensemble that are not excluded.
Overridden == DOMAIN ensemble \ excluded_params

\* The inputs are the Cartesian product of the overridden parameters' lists
\* on top of the reference input.
IsProduct(inputs) ==
  /\ Cardinality(Range(inputs)) = Len(inputs)
  /\ Range(inputs) =
       {input \in [Range(Searched) -> 0..MaxValues] :
          /\ \A p \in Overridden :
               input[OwnMember[p]] \in Range(ensemble[p])
          /\ \A f \in Range(Searched) \ {OwnMember[p] : p \in Overridden} :
               input[f] = ref_input[f]}

\* C28: with 1 to 5 parameters left after the exclusion gather_inputs
\* returns one input per element of the Cartesian product of their value
\* lists, each equal to the reference input but for those parameters, the
\* excluded ones keeping their reference value; with fewer than 1 or more
\* than 5 it fails fatally.
CE_C28 ==
  gathered # <<>> =>
    IF Cardinality(Overridden) \in 1..5
    THEN gathered.outcome = "returned" /\ IsProduct(gathered.inputs)
    ELSE gathered.outcome = "fatal"


(***************************************************************************)
(* The skywalker Fortran bridge (src/sw/skywalker.cpp, lines 335-555).     *)
(*                                                                         *)
(* An EnsembleData object is a record of its address, its inputs (first), *)
(* its outputs (second) and, as history, the callers that deleted it.      *)
(* The allocator may hand out again the address of a deleted object.       *)
(* skywalker::load_ensemble, InputData and OutputData are declared in a    *)
(* header this source tree does not hold: the loaded walk has one          *)
(* parameter, the arrays of an input are as long as the parameters set on  *)
(* it made them (InputData::operator[], lines 109-150), and the            *)
(* constructor OutputData(config) leaves the arrays empty.                 *)
(***************************************************************************)
\* The number of successful loads, and of addresses.
MaxLoads == 2

\* The null pointer sw_load_ensemble returns for an unknown configuration.
null_ensemble == 0

\* The addresses the allocator hands out.
AddressSpace == 1..MaxLoads

\* The aerosol_config arguments given to sw_load_ensemble.
AerosolConfigs == {"mam4", "MAM4", "mam3"}

\* strcasecmp(aerosol_config, "mam4") == 0
strcasecmp_mam4(aerosol_config) == aerosol_config \in {"mam4", "MAM4"}

\* The arrays of an InputData and of an OutputData.
Arrays ==
  {"interstitial_number_concs", "cloud_number_concs",
   "interstitial_aero_mmrs", "cloud_aero_mmrs", "gas_mmrs"}

\* num_modes, num_aerosol_populations and num_gases of the configuration
\* (scaled down).
create_mam4_modal_aerosol_config ==
  [num_modes |-> 2, num_aerosol_populations |-> 2, num_gases |-> 1]

\* The size the configuration gives to an array.
ConfigSize(config, a) ==
  CASE a \in {"interstitial_number_concs", "cloud_number_concs"} ->
         config.num_modes
    [] a \in {"interstitial_aero_mmrs", "cloud_aero_mmrs"} ->
         config.num_aerosol_populations
    [] a = "gas_mmrs" -> config.num_gases

\* An array of n values.
Filled(n, value) == [k \in 1..n |-> value]

\* The arrays of the inputs of a loaded walk: the sizes of the
\* configuration, or shorter where fewer parameters were set.
InputArrays(config, short) ==
  [a \in Arrays |-> Filled(IF a \in short THEN 0 ELSE ConfigSize(config, a),
                           1)]

\* The walks skywalker::load_ensemble returns: one parameter with one value
\* and every array set, or with two values and no gas set.
LoadedWalks(config) ==
  {[ensemble |-> [p \in {"atmosphere.temperature"} |-> <<1>>],
    arrays |-> InputArrays(config, {})],
   [ensemble |-> [p \in {"atmosphere.temperature"} |-> <<1, 2>>],
    arrays |-> InputArrays(config, {"gas_mmrs"})]}

\* OutputData(config): the constructor keeps the configuration and leaves
\* the arrays empty.
OutputData(config) == [a \in Arrays |-> <<>>]

\* std::vector::resize on an array.
resize(array, n) ==
  [k \in 1..n |-> IF k <= Len(array) THEN array[k] ELSE 0]

\* Lines 394-398 on the object they are given.
Resized(output, input) == [a \in Arrays |-> resize(output[a], Len(input[a]))]

\* Mutant: line 393 binds a reference, the resizes reach the stored output.
SizedOutputs_ByReference(inputs, built) ==
  [i \in 1..Len(inputs) |-> Resized(built, inputs[i].arrays)]

\* Lines 389-399: every output is a copy of OutputData(config); the loop
\* resizes a copy of output i (line 393), the stored one stays as built.
SizedOutputs(inputs, built) ==
  [i \in 1..Len(inputs) |->
     LET output == built
         resized == Resized(output, inputs[i].arrays) IN
     built]

\* The objects not deleted, and their addresses.
LiveObjects(objects) ==
  {o \in 1..Len(objects) : objects[o].deleted = <<>>}

Allocated(objects) == {objects[o].addr : o \in LiveObjects(objects)}

\* The object last allocated at an address.
ObjectAt(objects, addr) ==
  CHOOSE o \in 1..Len(objects) :
    /\ objects[o].addr = addr
    /\ \A q \in 1..Len(objects) : objects[q].addr = addr => q <= o

\* delete of the objects at the given addresses, by the named caller.
Delete(objects, addrs, by) ==
  [o \in 1..Len(objects) |->
     IF objects[o].addr \in addrs /\ o = ObjectAt(objects, objects[o].addr)
     THEN [objects[o] EXCEPT !.deleted = Append(@, by)]
     ELSE objects[o]]

\* Lines 402-405: the set is created, and its handler registered, once.
Registered(static, handlers, handler) ==
  IF static.null THEN Append(handlers, handler) ELSE handlers

\* sw_load_ensemble, lines 361-409.
SwLoadEnsemble ==
  /\ phase = "running"
  /\ \E aerosol_config \in AerosolConfigs :
       LET config_found == aerosol_config \in fortran_aero_configs_.keys
           known == config_found \/ strcasecmp_mam4(aerosol_config)
           config == create_mam4_modal_aerosol_config
           handlers == Registered(fortran_aero_configs_, atexit_,
                                  "destroy_aero_configs") IN
       /\ fortran_aero_configs_' =
            [null |-> FALSE,
             keys |-> IF known THEN {"mam4"} ELSE fortran_aero_configs_.keys]
       /\ IF ~known
          THEN /\ atexit_' = handlers
               /\ sw_last' = [call |-> "sw_load_ensemble",
                              ensemble |-> null_ensemble]
               /\ UNCHANGED <<fortran_ensembles_, sw_objects>>
          ELSE /\ Len(sw_objects) < MaxLoads
               /\ \E walk \in LoadedWalks(config),
                     addr \in AddressSpace \ Allocated(sw_objects) :
                    LET gathering == gather_inputs(walk.ensemble, RefInput,
                                                   {}, 0)
                        built == OutputData(config)
                        first == [i \in 1..Len(gathering.inputs) |->
                                    [aero_config |-> config,
                                     members |-> gathering.inputs[i],
                                     arrays |-> walk.arrays]]
                        second == SizedOutputs(first, built) IN
                    /\ sw_objects' =
                         Append(sw_objects,
                                [addr |-> addr, first |-> first,
                                 second |-> second, deleted |-> <<>>])
                    /\ atexit_' = Registered(fortran_ensembles_, handlers,
                                             "destroy_ensembles")
                    /\ fortran_ensembles_' =
                         [null |-> FALSE,
                          set |-> fortran_ensembles_.set \cup {addr}]
                    /\ sw_last' = [call |-> "sw_load_ensemble",
                                   ensemble |-> addr]
  /\ UNCHANGED phase
  /\ UNCHANGED <<assocVars, procVars, atmVars, chemVars, besideSw>>

\* std::copy(src, src + num, dst.begin()).
copy(src, num, dst) ==
  [k \in 1..Len(dst) |-> IF k <= num THEN src[k] ELSE dst[k]]

\* Lines 518-527 on the output they are given.
set_aerosols(outp, given) ==
  LET num_modes == Len(outp.interstitial_number_concs)
      num_pops == Len(outp.interstitial_aero_mmrs) IN
  [a \in Arrays |->
     CASE a \in {"interstitial_number_concs", "cloud_number_concs"} ->
            copy(given[a], num_modes, outp[a])
       [] a \in {"interstitial_aero_mmrs", "cloud_aero_mmrs"} ->
            copy(given[a], num_pops, outp[a])
       [] OTHER -> outp[a]]

\* Lines 532-534.
set_gases(outp, given) ==
  [outp EXCEPT !.gas_mmrs = copy(given.gas_mmrs, Len(outp.gas_mmrs), @)]

\* The caller's arrays: sized as sw_ensemble_get_array_sizes reports (lines
\* 418-430), every value 2.
Given(input) ==
  [a \in Arrays |-> Filled(ConfigSize(input.aero_config, a), 2)]

\* sw_output_set_aerosols on output i of a live ensemble, lines 514-528.
SwOutputSetAerosols ==
  /\ phase = "running"
  /\ \E o \in LiveObjects(sw_objects) :
       \E i \in 1..Len(sw_objects[o].second) :
         LET given == Given(sw_objects[o].first[i]) IN
         /\ sw_objects' =
              [sw_objects EXCEPT ![o].second[i] = set_aerosols(@, given)]
         /\ sw_last' = [call |-> "sw_output_set_aerosols",
                        ensemble |-> sw_objects[o].addr,
                        member |-> i, given |-> given]
  /\ UNCHANGED <<fortran_aero_configs_, fortran_ensembles_, atexit_, phase>>
  /\ UNCHANGED <<assocVars, procVars, atmVars, chemVars, besideSw>>

\* sw_output_set_gases on output i of a live ensemble, lines 531-535.
SwOutputSetGases ==
  /\ phase = "running"
  /\ \E o \in LiveObjects(sw_objects) :
       \E i \in 1..Len(sw_objects[o].second) :
         LET given == Given(sw_objects[o].first[i]) IN
         /\ sw_objects' =
              [sw_objects EXCEPT ![o].second[i] = set_gases(@, given)]
         /\ sw_last' = [call |-> "sw_output_set_gases",
                        ensemble |-> sw_objects[o].addr,
                        member |-> i, given |-> given]
  /\ UNCHANGED <<fortran_aero_configs_, fortran_ensembles_, atexit_, phase>>
  /\ UNCHANGED <<assocVars, procVars, atmVars, chemVars, besideSw>>

\* Mutant: the pointer found is deleted but stays in the set.
erase_Nothing(set, data) == set

\* Line 551: fortran_ensembles_->erase(iter).
erase(set, data) == set \ {data}

\* sw_ensemble_free, lines 546-555, on any pointer.
SwEnsembleFree ==
  /\ phase # "idle"
  /\ \E data \in AddressSpace \cup {null_ensemble} :
       LET found == ~fortran_ensembles_.null /\ data \in fortran_ensembles_.set
       IN
       /\ fortran_ensembles_' =
            IF found
            THEN [fortran_ensembles_ EXCEPT !.set = erase(@, data)]
            ELSE fortran_ensembles_
       /\ sw_objects' =
            IF found
            THEN Delete(sw_objects, {data}, "sw_ensemble_free")
            ELSE sw_objects
       /\ sw_last' = [call |-> "sw_ensemble_free", ensemble |-> data,
                      found |-> found]
  /\ UNCHANGED <<fortran_aero_configs_, atexit_, phase>>
  /\ UNCHANGED <<assocVars, procVars, atmVars, chemVars, besideSw>>

\* The handler atexit runs next: the one registered last.
NextHandler == atexit_[Len(atexit_)]

\* What is left to run once the next handler has run.
Popped == SubSeq(atexit_, 1, Len(atexit_) - 1)

\* The program exits: the registered handlers run in reverse order.
Exit ==
  /\ phase = "running"
  /\ phase' = IF atexit_ = <<>> THEN "exited" ELSE "exiting"
  /\ UNCHANGED <<fortran_aero_configs_, fortran_ensembles_, atexit_,
                 sw_objects, sw_last>>
  /\ UNCHANGED <<assocVars, procVars, atmVars, chemVars, besideSw>>

\* destroy_ensembles, lines 346-352.
DestroyEnsembles ==
  /\ phase = "exiting"
  /\ NextHandler = "destroy_ensembles"
  /\ sw_objects' = Delete(sw_objects, fortran_ensembles_.set,
                          "destroy_ensembles")
  /\ fortran_ensembles_' = [null |-> TRUE, set |-> {}]
  /\ atexit_' = Popped
  /\ phase' = IF Popped = <<>> THEN "exited" ELSE "exiting"
  /\ UNCHANGED <<fortran_aero_configs_, sw_last>>
  /\ UNCHANGED <<assocVars, procVars, atmVars, chemVars, besideSw>>

\* destroy_aero_configs, lines 337-340.
DestroyAeroConfigs ==
  /\ phase = "exiting"
  /\ NextHandler = "destroy_aero_configs"
  /\ fortran_aero_configs_' = [null |-> TRUE, keys |-> {}]
  /\ atexit_' = Popped
  /\ phase' = IF Popped = <<>> THEN "exited" ELSE "exiting"
  /\ UNCHANGED <<fortran_ensembles_, sw_objects, sw_last>>
  /\ UNCHANGED <<assocVars, procVars, atmVars, chemVars, besideSw>>

InitSw ==
  /\ phase = "running"
  /\ SwBlank
  /\ AssocIdle
  /\ ProcIdle
  /\ AtmIdle
  /\ ChemIdle
  /\ BesideSwIdle
NextSw ==
  \/ SwLoadEnsemble
  \/ SwOutputSetAerosols
  \/ SwOutputSetGases
  \/ SwEnsembleFree
  \/ Exit
  \/ DestroyEnsembles
  \/ DestroyAeroConfigs
SpecSw == InitSw /\ [][NextSw]_vars

\* The ensemble the last call of the bridge was about.
LastEnsemble == sw_objects[ObjectAt(sw_objects, sw_last.ensemble)]

\* Output i has arrays as long as those of input i.
SizedAsInput(object, i) ==
  \A a \in Arrays :
    Len(object.second[i][a]) = Len(object.first[i].arrays[a])

\* C29: after sw_load_ensemble returns a non-null ensemble it holds as many
\* outputs as inputs and every array of output i is as long as the same
\* array of input i; sw_output_set_aerosols and sw_output_set_gases then
\* store every value they are given.
CE_C29 ==
  /\ (sw_last # <<>> /\ sw_last.call = "sw_load_ensemble"
        /\ sw_last.ensemble # null_ensemble) =>
       /\ Len(LastEnsemble.second) = Len(LastEnsemble.first)
       /\ \A i \in 1..Len(LastEnsemble.first) : SizedAsInput(LastEnsemble, i)
  /\ (sw_last # <<>> /\ sw_last.call = "sw_output_set_aerosols") =>
       \A a \in Arrays \ {"gas_mmrs"} :
         LastEnsemble.second[sw_last.member][a] = sw_last.given[a]
  /\ (sw_last # <<>> /\ sw_last.call = "sw_output_set_gases") =>
       LastEnsemble.second[sw_last.member].gas_mmrs = sw_last.given.gas_mmrs


\* The live set: the addresses fortran_ensembles_ holds.
LiveSet == fortran_ensembles_.set

\* No ensemble is deleted twice; the live set holds exactly the ensembles
\* not deleted while the set exists; after the exit handlers every loaded
\* ensemble has been deleted.
DeletedOnce ==
  /\ \A o \in 1..Len(sw_objects) : Len(sw_objects[o].deleted) <= 1
  /\ ~fortran_ensembles_.null => LiveSet = Allocated(sw_objects)
  /\ fortran_ensembles_.null /\ sw_objects # <<>> =>
       LiveObjects(sw_objects) = {}
  /\ phase = "exited" => LiveObjects(sw_objects) = {}

\* A step of sw_ensemble_free: a pointer in the live set leaves it and its
\* ensemble is deleted, any other pointer changes nothing.
FreeStep ==
  (sw_last' # sw_last /\ sw_last'.call = "sw_ensemble_free") =>
    IF sw_last'.ensemble \in LiveSet
    THEN /\ fortran_ensembles_'.set = LiveSet \ {sw_last'.ensemble}
         /\ LiveObjects(sw_objects') =
              LiveObjects(sw_objects)
                \ {ObjectAt(sw_objects, sw_last'.ensemble)}
         /\ sw_objects'[ObjectAt(sw_objects, sw_last'.ensemble)].deleted =
              <<"sw_ensemble_free">>
    ELSE UNCHANGED <<fortran_ensembles_, sw_objects>>

\* A step of the exit handler: it deletes the ensembles of the live set and
\* no other.
HandlerStep ==
  (atexit_ # <<>> /\ atexit_' # atexit_
     /\ atexit_[Len(atexit_)] = "destroy_ensembles") =>
    \A o \in 1..Len(sw_objects) :
      sw_objects'[o].deleted =
        IF o \in LiveObjects(sw_objects) /\ sw_objects[o].addr \in LiveSet
        THEN <<"destroy_ensembles">>
        ELSE sw_objects[o].deleted

\* C30: for any sequence of loads and frees each loaded ensemble is deleted
\* exactly once: freeing a live ensemble removes it from the live set and
\* deletes it, freeing a pointer that is not in the live set (freed before,
\* or never loaded) does nothing, and the exit handler deletes only the
\* ensembles still in the live set.
Thm_C30 == []DeletedOnce /\ [][FreeStep /\ HandlerStep]_vars

\* Witness for C30: the program has exited after two loads; one ensemble
\* was freed by sw_ensemble_free, the other deleted by the exit handler,
\* and the last call freed a pointer already freed, finding nothing.
Wit_C30 ==
  /\ phase = "exited"
  /\ Len(sw_objects) = 2
  /\ \E o, q \in 1..2 :
       /\ sw_objects[o].deleted = <<"sw_ensemble_free">>
       /\ sw_objects[q].deleted = <<"destroy_ensembles">>
       /\ sw_last.call = "sw_ensemble_free"
       /\ sw_last.ensemble = sw_objects[o].addr
       /\ ~sw_last.found

=============================================================================
